---- MODULE Spec2Model ----
(***************************************************************************)
(* Model of the Buffer (share ledger) and Bridge (installment plan engine) *)
(* Soroban contracts:                                                      *)
(*   src/contracts/soroban/buffer/src/lib.rs                               *)
(*   src/contracts/soroban/bridge/src/lib.rs                               *)
(*                                                                         *)
(* Every public entry point is one action.  An invocation that panics, or  *)
(* whose contract function returns Err(..), is a failed invocation: the    *)
(* Soroban host discards every storage write the invocation made (of the   *)
(* contract itself and of every contract it called), so the only trace of  *)
(* such a call is its outcome, kept in res.                                *)
(*                                                                         *)
(* The external yield reserve is the environment: its totals are the       *)
(* variable vault, which the environment can change at any time, and the   *)
(* share count it mints on a deposit is an input of Deposit.               *)
(* i128/u64 arithmetic: every value of the model stays far below the type  *)
(* limits, so the checked_* helpers never take their overflow branch; they *)
(* are modelled by the value they return.                                  *)
(***************************************************************************)
EXTENDS Integers, Sequences, FiniteSets, TLC

\* ------------------------------------------------------------ bounds
MaxTime == 1
MaxAmount == 5
MaxDeposited == 5
MaxCount == 2
MaxPlans == 2
MaxVersion == 5
MaxLedgerTime == 3
MaxLedgerDeposited == 3
MaxLedgerVersion == 4
MaxShares == 2
MaxTotal == 4
MaxHeld == 3
MaxQueryTime == 2
MaxStatsVersion == 3
MaxConserveOps == 4

\* ------------------------------------------------- program constants
MIN_AMOUNT == 1
DEFAULT_SLIPPAGE_BPS == 50
DEFAULT_MIN_INTERVAL_SECS == 2
BPS_DIVISOR == 10000
MAX_LTV_BPS == 8000
LTV_DIVISOR == 10000
MAX_INSTALLMENTS == 12

NONE == -1
SOURCE_AVAILABLE == 0
SOURCE_PROTECTED == 1

Users == {"alice"}
Merchants == {"shop"}

\* Totals (total managed value, total shares) the reserve can report.  Only
\* their ratio enters the pricing, so each price is given in lowest terms.
ZeroTotals == <<0, 0>>
NonZeroTotals == {<<1, 1>>, <<3, 2>>, <<2, 3>>}

VARIABLES now, paused, config, vault, balances, stats, plans, plan_counter, user_plans, res,
          frame

vars == <<now, paused, config, vault, balances, stats, plans, plan_counter, user_plans, res, frame>>

\* ------------------------------------------------------- arithmetic
Abs(x) == IF x < 0 THEN -x ELSE x

\* Rust's / and % on signed integers truncate toward zero.
TruncDiv(a, b) == IF (a >= 0) = (b > 0) THEN Abs(a) \div Abs(b) ELSE -(Abs(a) \div Abs(b))

TruncRem(a, b) == a - b * TruncDiv(a, b)

checked_add(a, b) == a + b

checked_sub(a, b) == a - b

\* Variant: rounds up.
mul_div_Up(a, b, c) == TruncDiv(a * b + c - 1, c)

mul_div(a, b, c) == TruncDiv(a * b, c)

\* Variant: rounds down.
mul_div_ceil_Floor(a, b, c) == TruncDiv(a * b, c)

mul_div_ceil(a, b, c) ==
    LET prod == a * b
        div == TruncDiv(prod, c)
        remainder == TruncRem(prod, c)
    IN IF remainder = 0 THEN div ELSE div + 1

\* ------------------------------------------------------ the reserve
total_managed == vault[1]

total_shares == vault[2]

\* ------------------------------------------------------- the ledger
DefaultBalance ==
    [available_shares |-> 0, protected_shares |-> 0, total_deposited |-> 0,
     last_deposit_ts |-> 0, version |-> 0]

DefaultStats ==
    [total_available |-> 0, total_protected |-> 0, total_deposited |-> 0, unique_users |-> 0]

DefaultConfig ==
    [min_deposit_interval |-> DEFAULT_MIN_INTERVAL_SECS,
     slippage_tolerance_bps |-> DEFAULT_SLIPPAGE_BPS]

\* The ledger's persistent storage, as one value threaded through the calls
\* of an invocation.
Ledger == [balances |-> balances, stats |-> stats]

get_balance_or_default(L, user) == L.balances[user]

\* Variant: every deposit counts as a new user.
update_total_stats_CountsDeposits(s, available_delta, protected_delta, deposited_delta, is_new_user) ==
    [total_available |-> checked_add(s.total_available, available_delta),
     total_protected |-> checked_add(s.total_protected, protected_delta),
     total_deposited |-> checked_add(s.total_deposited, deposited_delta),
     unique_users |-> IF deposited_delta > 0 THEN s.unique_users + 1 ELSE s.unique_users]

update_total_stats(s, available_delta, protected_delta, deposited_delta, is_new_user) ==
    [total_available |-> checked_add(s.total_available, available_delta),
     total_protected |-> checked_add(s.total_protected, protected_delta),
     total_deposited |-> checked_add(s.total_deposited, deposited_delta),
     unique_users |-> IF is_new_user THEN s.unique_users + 1 ELSE s.unique_users]

\* The outcome of a ledger call: "Ok" and the storage after it, or the panic
\* message and the storage untouched.
Done(L) == [out |-> "Ok", L |-> L]

Panic(msg, L) == [out |-> msg, L |-> L]

SetBalance(L, user, bal, newStats) ==
    [balances |-> [L.balances EXCEPT ![user] = bal], stats |-> newStats]

shares_for_amount_panics(amount) == amount < MIN_AMOUNT

shares_for_amount(amount) ==
    IF total_shares = 0 \/ total_managed = 0
    THEN amount
    ELSE mul_div_ceil(amount, total_shares, total_managed)

\* Variant: the available value is reported as the total value.
get_values_AvailableIsTotal(L, user) ==
    LET bal == get_balance_or_default(L, user)
        user_shares == checked_add(bal.available_shares, bal.protected_shares)
        total_value == IF user_shares = 0 \/ total_shares = 0
                       THEN 0
                       ELSE mul_div(user_shares, total_managed, total_shares)
    IN <<total_value, 0, total_value>>

\* <<available value, protected value, total value>>
get_values(L, user) ==
    LET bal == get_balance_or_default(L, user)
        user_shares == checked_add(bal.available_shares, bal.protected_shares)
        total_value == IF user_shares = 0 \/ total_shares = 0
                       THEN 0
                       ELSE mul_div(user_shares, total_managed, total_shares)
        available_value == IF bal.available_shares = 0 \/ total_shares = 0
                           THEN 0
                           ELSE mul_div(bal.available_shares, total_managed, total_shares)
        protected_value == checked_sub(total_value, available_value)
    IN <<available_value, protected_value, total_value>>

\* Variant: lock does not look at what the available pool holds.
lock_shares_Unchecked(L, user, shares) ==
    LET bal == get_balance_or_default(L, user)
    IN IF paused THEN Panic("Contract paused", L)
       ELSE IF shares < MIN_AMOUNT THEN Panic("Invalid amount", L)
       ELSE Done(SetBalance(L, user,
                [bal EXCEPT !.available_shares = checked_sub(@, shares),
                            !.protected_shares = checked_add(@, shares),
                            !.version = @ + 1],
                update_total_stats(L.stats, -shares, shares, 0, FALSE)))

lock_shares(L, user, shares) ==
    LET bal == get_balance_or_default(L, user)
    IN IF paused THEN Panic("Contract paused", L)
       ELSE IF shares < MIN_AMOUNT THEN Panic("Invalid amount", L)
       ELSE IF bal.available_shares < shares THEN Panic("Insufficient available", L)
       ELSE Done(SetBalance(L, user,
                [bal EXCEPT !.available_shares = checked_sub(@, shares),
                            !.protected_shares = checked_add(@, shares),
                            !.version = @ + 1],
                update_total_stats(L.stats, -shares, shares, 0, FALSE)))

\* Variant: unlock leaves the version as it was.
unlock_shares_Unversioned(L, user, shares) ==
    LET bal == get_balance_or_default(L, user)
    IN IF shares < MIN_AMOUNT THEN Panic("Invalid amount", L)
       ELSE IF bal.protected_shares < shares THEN Panic("Insufficient protected", L)
       ELSE Done(SetBalance(L, user,
                [bal EXCEPT !.protected_shares = checked_sub(@, shares),
                            !.available_shares = checked_add(@, shares)],
                update_total_stats(L.stats, shares, -shares, 0, FALSE)))

\* Variant: unlock is refused while the ledger is paused.
unlock_shares_PauseGated(L, user, shares) ==
    LET bal == get_balance_or_default(L, user)
    IN IF paused THEN Panic("Contract paused", L)
       ELSE IF shares < MIN_AMOUNT THEN Panic("Invalid amount", L)
       ELSE IF bal.protected_shares < shares THEN Panic("Insufficient protected", L)
       ELSE Done(SetBalance(L, user,
                [bal EXCEPT !.protected_shares = checked_sub(@, shares),
                            !.available_shares = checked_add(@, shares),
                            !.version = @ + 1],
                update_total_stats(L.stats, shares, -shares, 0, FALSE)))

unlock_shares(L, user, shares) ==
    LET bal == get_balance_or_default(L, user)
    IN IF shares < MIN_AMOUNT THEN Panic("Invalid amount", L)
       ELSE IF bal.protected_shares < shares THEN Panic("Insufficient protected", L)
       ELSE Done(SetBalance(L, user,
                [bal EXCEPT !.protected_shares = checked_sub(@, shares),
                            !.available_shares = checked_add(@, shares),
                            !.version = @ + 1],
                update_total_stats(L.stats, shares, -shares, 0, FALSE)))

\* Variant: a shortfall of the named pool is taken from the other pool.
withdraw_internal_Covering(L, user, shares, from_protected) ==
    LET bal == get_balance_or_default(L, user)
        named == IF from_protected THEN bal.protected_shares ELSE bal.available_shares
        other == IF from_protected THEN bal.available_shares ELSE bal.protected_shares
        taken == IF named < shares THEN named ELSE shares
    IN IF shares < MIN_AMOUNT THEN Panic("Invalid amount", L)
       ELSE IF named + other < shares
            THEN Panic(IF from_protected THEN "Insufficient protected"
                                         ELSE "Insufficient available", L)
       ELSE Done(SetBalance(L, user,
                [bal EXCEPT !.protected_shares =
                                @ - (IF from_protected THEN taken ELSE shares - taken),
                            !.available_shares =
                                @ - (IF from_protected THEN shares - taken ELSE taken),
                            !.version = @ + 1],
                update_total_stats(L.stats,
                                   -(IF from_protected THEN shares - taken ELSE taken),
                                   -(IF from_protected THEN taken ELSE shares - taken),
                                   0, FALSE)))

\* Variant: the debit does not look at what the pool holds.
withdraw_internal_Unchecked(L, user, shares, from_protected) ==
    LET bal == get_balance_or_default(L, user)
    IN IF shares < MIN_AMOUNT THEN Panic("Invalid amount", L)
       ELSE Done(SetBalance(L, user,
                IF from_protected
                THEN [bal EXCEPT !.protected_shares = checked_sub(@, shares),
                                 !.version = @ + 1]
                ELSE [bal EXCEPT !.available_shares = checked_sub(@, shares),
                                 !.version = @ + 1],
                IF from_protected
                THEN update_total_stats(L.stats, 0, -shares, 0, FALSE)
                ELSE update_total_stats(L.stats, -shares, 0, 0, FALSE)))

withdraw_internal(L, user, shares, from_protected) ==
    LET bal == get_balance_or_default(L, user)
    IN IF shares < MIN_AMOUNT THEN Panic("Invalid amount", L)
       ELSE IF from_protected /\ bal.protected_shares < shares
            THEN Panic("Insufficient protected", L)
       ELSE IF ~from_protected /\ bal.available_shares < shares
            THEN Panic("Insufficient available", L)
       ELSE Done(SetBalance(L, user,
                IF from_protected
                THEN [bal EXCEPT !.protected_shares = checked_sub(@, shares),
                                 !.version = @ + 1]
                ELSE [bal EXCEPT !.available_shares = checked_sub(@, shares),
                                 !.version = @ + 1],
                IF from_protected
                THEN update_total_stats(L.stats, 0, -shares, 0, FALSE)
                ELSE update_total_stats(L.stats, -shares, 0, 0, FALSE)))

debit_available(L, user, shares) == withdraw_internal(L, user, shares, FALSE)

debit_protected(L, user, shares) == withdraw_internal(L, user, shares, TRUE)

withdraw_available(L, user, shares) ==
    IF paused THEN Panic("Contract paused", L)
    ELSE withdraw_internal(L, user, shares, FALSE)

\* What deposit expects the reserve to mint for amount.
expected_shares(amount) ==
    IF total_shares = 0 \/ total_managed = 0
    THEN amount
    ELSE mul_div_ceil(amount, total_shares, total_managed)

\* Variant: no floor on the minted count.
min_shares_out_None(amount) == 0

min_shares_out(amount) ==
    checked_sub(expected_shares(amount),
                mul_div(expected_shares(amount), config.slippage_tolerance_bps, BPS_DIVISOR))

\* Variant: credits the expected share count instead of the minted one.
deposit_CreditsExpected(L, user, amount, actual_shares) ==
    LET bal == get_balance_or_default(L, user)
    IN IF paused \/ amount < MIN_AMOUNT \/ actual_shares <= 0
          \/ actual_shares < min_shares_out(amount)
          \/ (bal.last_deposit_ts > 0
              /\ now - bal.last_deposit_ts < config.min_deposit_interval)
       THEN Panic("Deposit refused", L)
       ELSE Done(SetBalance(L, user,
                [bal EXCEPT !.available_shares = checked_add(@, expected_shares(amount)),
                            !.total_deposited = checked_add(@, amount),
                            !.last_deposit_ts = now,
                            !.version = @ + 1],
                update_total_stats(L.stats, expected_shares(amount), 0, amount,
                                   bal.version = 0)))

\* deposit, with actual_shares the share count the reserve reports minted.
deposit(L, user, amount, actual_shares) ==
    LET bal == get_balance_or_default(L, user)
        is_new_user == bal.version = 0
    IN IF paused THEN Panic("Contract paused", L)
       ELSE IF amount < MIN_AMOUNT THEN Panic("Invalid amount", L)
       ELSE IF bal.last_deposit_ts > 0 /\ now < bal.last_deposit_ts
            THEN Panic("Invalid timestamp", L)
       ELSE IF bal.last_deposit_ts > 0
               /\ now - bal.last_deposit_ts < config.min_deposit_interval
            THEN Panic("Deposit too frequent", L)
       ELSE IF actual_shares <= 0 THEN Panic("Invalid vault response", L)
       ELSE IF actual_shares < min_shares_out(amount) THEN Panic("Slippage exceeded", L)
       ELSE Done(SetBalance(L, user,
                [bal EXCEPT !.available_shares = checked_add(@, actual_shares),
                            !.total_deposited = checked_add(@, amount),
                            !.last_deposit_ts = now,
                            !.version = @ + 1],
                update_total_stats(L.stats, actual_shares, 0, amount, is_new_user)))

\* ------------------------------------------------- the plan engine
\* Variant: every plan gets the id of counter 0.
PlanId_Constant(counter) == 0

\* The plan id is the counter's 8 big-endian bytes followed by 8 zero bytes:
\* a one-to-one image of the counter, which stands for it here.
PlanId(counter) == counter

\* Variant: the counter is not advanced, so the next plan reuses the id.
NextCounter_Reused(counter) == counter

NextCounter(counter) == counter + 1

\* Variant: the ceiling is the whole total value.
max_bridge_amount_Full(total_value) == total_value

max_bridge_amount(total_value) == TruncDiv(total_value * MAX_LTV_BPS, LTV_DIVISOR)

\* Variant: a due date equal to the current time is let through.
BasicValidation_DueNowAccepted(total_amount, installments_count, due_dates) ==
    IF total_amount <= 0 THEN "InvalidAmount"
    ELSE IF installments_count = 0 \/ installments_count > MAX_INSTALLMENTS
         THEN "InvalidInstallments"
    ELSE IF Len(due_dates) # installments_count THEN "DatesMismatch"
    ELSE IF \E i \in 1..Len(due_dates) : due_dates[i] < now THEN "InvalidDueDate"
    ELSE "Ok"

BasicValidation(total_amount, installments_count, due_dates) ==
    IF total_amount <= 0 THEN "InvalidAmount"
    ELSE IF installments_count = 0 \/ installments_count > MAX_INSTALLMENTS
         THEN "InvalidInstallments"
    ELSE IF Len(due_dates) # installments_count THEN "DatesMismatch"
    ELSE IF \E i \in 1..Len(due_dates) : due_dates[i] <= now THEN "InvalidDueDate"
    ELSE "Ok"

\* Variant: availability is checked before LTV.
CollateralValidation_AvailabilityFirst(total_amount, available_value, total_value) ==
    IF total_amount > available_value THEN "InsufficientAvailable"
    ELSE IF total_amount > max_bridge_amount(total_value) THEN "ExceedsMaxLTV"
    ELSE "Ok"

CollateralValidation(total_amount, available_value, total_value) ==
    IF total_amount > max_bridge_amount(total_value) THEN "ExceedsMaxLTV"
    ELSE IF total_amount > available_value THEN "InsufficientAvailable"
    ELSE "Ok"

\* Variant: the remainder of the division is dropped.
InstallmentAmount_RemainderDropped(total_amount, installments_count, i) ==
    TruncDiv(total_amount, installments_count)

InstallmentAmount(total_amount, installments_count, i) ==
    LET amount_per_installment == TruncDiv(total_amount, installments_count)
        remainder == TruncRem(total_amount, installments_count)
    IN IF i = installments_count - 1
       THEN amount_per_installment + remainder
       ELSE amount_per_installment

\* The installment built in iteration i (0-based) is stored at position i + 1.
BuildInstallments(total_amount, installments_count, due_dates) ==
    [k \in 1..installments_count |->
        [number |-> k,
         amount |-> InstallmentAmount(total_amount, installments_count, k - 1),
         due_date |-> due_dates[k],
         paid_at |-> NONE,
         payment_source |-> NONE,
         status |-> "Pending"]]

\* Variant: the plan records the amount as its protected shares.
NewPlan_AmountAsShares(plan_id, user, merchant, total_amount, installments_count, due_dates, shares_needed) ==
    [plan_id |-> plan_id,
     user |-> user,
     merchant |-> merchant,
     total_amount |-> total_amount,
     total_shares |-> shares_needed,
     installments_count |-> installments_count,
     installments |-> BuildInstallments(total_amount, installments_count, due_dates),
     protected_shares |-> total_amount,
     status |-> "Active",
     created_at |-> now]

NewPlan(plan_id, user, merchant, total_amount, installments_count, due_dates, shares_needed) ==
    [plan_id |-> plan_id,
     user |-> user,
     merchant |-> merchant,
     total_amount |-> total_amount,
     total_shares |-> shares_needed,
     installments_count |-> installments_count,
     installments |-> BuildInstallments(total_amount, installments_count, due_dates),
     protected_shares |-> shares_needed,
     status |-> "Active",
     created_at |-> now]

StorePlan(P, plan_id, plan) ==
    [id \in DOMAIN P \cup {plan_id} |-> IF id = plan_id THEN plan ELSE P[id]]

\* create_plan: its outcome, and the storage of both contracts as the
\* invocation leaves it.
create_plan(user, merchant, total_amount, installments_count, due_dates) ==
    LET L == Ledger
        same == [out |-> "Ok", L |-> L, plans |-> plans, plan_counter |-> plan_counter,
                 user_plans |-> user_plans]
        basic == BasicValidation(total_amount, installments_count, due_dates)
        values == get_values(L, user)
        collateral == CollateralValidation(total_amount, values[1], values[3])
        shares_needed == shares_for_amount(total_amount)
        locked == lock_shares(L, user, shares_needed)
        plan_id == PlanId(plan_counter)
        plan == NewPlan(plan_id, user, merchant, total_amount, installments_count,
                        due_dates, shares_needed)
    IN IF basic # "Ok" THEN [same EXCEPT !.out = basic]
       ELSE IF collateral # "Ok" THEN [same EXCEPT !.out = collateral]
       ELSE IF shares_for_amount_panics(total_amount) THEN [same EXCEPT !.out = "Invalid amount"]
       ELSE IF shares_needed <= 0 THEN [same EXCEPT !.out = "InvalidShares"]
       ELSE IF locked.out # "Ok" THEN [same EXCEPT !.out = locked.out]
       ELSE [out |-> "Ok",
             L |-> locked.L,
             plans |-> StorePlan(plans, plan_id, plan),
             plan_counter |-> NextCounter(plan_counter),
             user_plans |-> [user_plans EXCEPT ![user] = Append(@, plan_id)]]

\* Variant: the Pending check lets every installment through.
IsPending_Always(installment) == TRUE

IsPending(installment) == installment.status = "Pending"

IsDue(installment) == ~(now < installment.due_date)

\* Variant: one paid installment is enough.
all_paid_Any(plan) ==
    \E i \in 1..Len(plan.installments) : plan.installments[i].status = "Paid"

all_paid(plan) ==
    \A i \in 1..Len(plan.installments) : plan.installments[i].status = "Paid"

\* Variant: the available path lowers the plan's protected shares by the
\* shares debited.
ReleaseProportional_Direct(plan, shares_needed) ==
    [plan EXCEPT !.protected_shares = checked_sub(@, shares_needed)]

\* Available path: the plan's protected shares go down in proportion.
ReleaseProportional(plan, shares_needed) ==
    IF plan.total_amount > 0
    THEN [plan EXCEPT !.protected_shares =
            checked_sub(@, TruncDiv(shares_needed * plan.total_shares, plan.total_amount))]
    ELSE plan

\* Variant: the protected path lowers the plan's protected shares in
\* proportion.
ReleaseDirect_Proportional(plan, shares_needed) ==
    [plan EXCEPT !.protected_shares =
        checked_sub(@, TruncDiv(shares_needed * plan.total_shares, plan.total_amount))]

\* Protected path: the plan's protected shares go down by the shares debited.
ReleaseDirect(plan, shares_needed) ==
    [plan EXCEPT !.protected_shares = checked_sub(@, shares_needed)]

MarkPaid(plan, index, payment_source) ==
    [plan EXCEPT !.installments[index] =
        [@ EXCEPT !.paid_at = now, !.payment_source = payment_source, !.status = "Paid"]]

MarkFailed(plan, index) ==
    [plan EXCEPT !.installments[index] = [@ EXCEPT !.status = "Failed"],
                 !.status = "Defaulted"]

\* Variant: completion clears the plan's total shares instead of its
\* protected shares.
CompletePlan_ZeroesTotal(plan, L) ==
    IF all_paid(plan)
    THEN IF plan.protected_shares > 0
         THEN LET unlocked == unlock_shares(L, plan.user, plan.protected_shares)
              IN [out |-> unlocked.out,
                  plan |-> [plan EXCEPT !.status = "Completed", !.total_shares = 0],
                  L |-> unlocked.L]
         ELSE [out |-> "Ok", plan |-> [plan EXCEPT !.status = "Completed"], L |-> L]
    ELSE [out |-> "Ok", plan |-> plan, L |-> L]

\* The completion check that ends a successful collection.
CompletePlan(plan, L) ==
    IF all_paid(plan)
    THEN IF plan.protected_shares > 0
         THEN LET unlocked == unlock_shares(L, plan.user, plan.protected_shares)
              IN [out |-> unlocked.out,
                  plan |-> [plan EXCEPT !.status = "Completed", !.protected_shares = 0],
                  L |-> unlocked.L]
         ELSE [out |-> "Ok", plan |-> [plan EXCEPT !.status = "Completed"], L |-> L]
    ELSE [out |-> "Ok", plan |-> plan, L |-> L]

\* Variant: the protected pool is tried before the available pool.
ResolvePayment_ProtectedFirst(plan, index) ==
    LET L == Ledger
        installment == plan.installments[index]
        shares_needed == shares_for_amount(installment.amount)
        balance == get_balance_or_default(L, plan.user)
        from_available == debit_available(L, plan.user, shares_needed)
        from_protected == debit_protected(L, plan.user, shares_needed)
        paid_available ==
            CompletePlan(MarkPaid(ReleaseProportional(plan, shares_needed), index,
                                  SOURCE_AVAILABLE), from_available.L)
        paid_protected ==
            CompletePlan(MarkPaid(ReleaseDirect(plan, shares_needed), index,
                                  SOURCE_PROTECTED), from_protected.L)
    IN IF shares_for_amount_panics(installment.amount)
       THEN [out |-> "Invalid amount", plan |-> plan, L |-> L, src |-> NONE]
       ELSE IF balance.protected_shares >= shares_needed
       THEN [out |-> paid_protected.out, plan |-> paid_protected.plan,
             L |-> paid_protected.L, src |-> SOURCE_PROTECTED]
       ELSE IF balance.available_shares >= shares_needed
       THEN [out |-> paid_available.out, plan |-> paid_available.plan,
             L |-> paid_available.L, src |-> SOURCE_AVAILABLE]
       ELSE [out |-> "InsufficientFunds", plan |-> MarkFailed(plan, index), L |-> L,
             src |-> NONE]

\* The three-way payment resolution for a pending, due installment stored
\* at position index of plan.  plan and L are the values the invocation has
\* written when it ends; src is the pool debited.
ResolvePayment(plan, index) ==
    LET L == Ledger
        installment == plan.installments[index]
        shares_needed == shares_for_amount(installment.amount)
        balance == get_balance_or_default(L, plan.user)
        from_available == debit_available(L, plan.user, shares_needed)
        from_protected == debit_protected(L, plan.user, shares_needed)
        paid_available ==
            CompletePlan(MarkPaid(ReleaseProportional(plan, shares_needed), index,
                                  SOURCE_AVAILABLE), from_available.L)
        paid_protected ==
            CompletePlan(MarkPaid(ReleaseDirect(plan, shares_needed), index,
                                  SOURCE_PROTECTED), from_protected.L)
    IN IF shares_for_amount_panics(installment.amount)
       THEN [out |-> "Invalid amount", plan |-> plan, L |-> L, src |-> NONE]
       ELSE IF balance.available_shares >= shares_needed
       THEN IF from_available.out # "Ok"
            THEN [out |-> from_available.out, plan |-> plan, L |-> L, src |-> NONE]
            ELSE [out |-> paid_available.out, plan |-> paid_available.plan,
                  L |-> paid_available.L, src |-> SOURCE_AVAILABLE]
       ELSE IF balance.protected_shares >= shares_needed
       THEN IF from_protected.out # "Ok"
            THEN [out |-> from_protected.out, plan |-> plan, L |-> L, src |-> NONE]
            ELSE [out |-> paid_protected.out, plan |-> paid_protected.plan,
                  L |-> paid_protected.L, src |-> SOURCE_PROTECTED]
       ELSE [out |-> "InsufficientFunds", plan |-> MarkFailed(plan, index), L |-> L,
             src |-> NONE]

\* collect_installment.  installment_number - 1 is a u32 subtraction: for
\* installment_number = 0 it panics in a build with overflow checks and wraps
\* to u32::MAX in a build without (wraps tells which).
collect_installment(plan_id, installment_number, wraps) ==
    LET failed(e) == [out |-> e, plan |-> plans[plan_id], L |-> Ledger, src |-> NONE]
    IN IF plan_id \notin DOMAIN plans
       THEN [out |-> "PlanNotFound", plan |-> NONE, L |-> Ledger, src |-> NONE]
       ELSE IF installment_number = 0 /\ ~wraps THEN failed("attempt to subtract with overflow")
       ELSE IF installment_number = 0 \/ installment_number - 1 >= Len(plans[plan_id].installments)
            THEN failed("InstallmentNotFound")
       ELSE IF ~IsPending(plans[plan_id].installments[installment_number])
            THEN failed("AlreadyPaid")
       ELSE IF ~IsDue(plans[plan_id].installments[installment_number])
            THEN failed("NotDueYet")
       ELSE ResolvePayment(plans[plan_id], installment_number)

\* ------------------------------------------------------------ actions
\* res is the outcome of the last step: the operation, "Ok" or the error
\* or panic that ended it, and for a collection the plan, the installment
\* number and the pool that paid.
Result(op, out, plan, num, src) ==
    [op |-> op, out |-> out, plan |-> plan, num |-> num, src |-> src]

\* Variant: a failed invocation keeps what it had written.
Committed_KeepsWrites(out, before, after) == after

\* What an invocation leaves in storage: what it wrote when it returned Ok,
\* and what was there before when it panicked or returned Err.
Committed(out, before, after) == IF out = "Ok" THEN after ELSE before

\* deposit's stack frame while its call to the reserve is in flight: the
\* locals it keeps across the call, and the storage as it was when the
\* invocation began (what a failure of the invocation restores).
NoFrame ==
    [active |-> FALSE, user |-> "", amount |-> 0, original_version |-> 0,
     is_new_user |-> FALSE, min_shares_out |-> 0,
     entry |-> [balances |-> [u \in Users |-> DefaultBalance], stats |-> DefaultStats]]

Init ==
    /\ now = 0
    /\ frame = NoFrame
    /\ paused = FALSE
    /\ config = DefaultConfig
    /\ vault = ZeroTotals
    /\ balances = [u \in Users |-> DefaultBalance]
    /\ stats = DefaultStats
    /\ plans = <<>>
    /\ plan_counter = 0
    /\ user_plans = [u \in Users |-> <<>>]
    /\ res = Result("init", "Ok", NONE, NONE, NONE)

Tick ==
    /\ now < MaxTime
    /\ now' = now + 1
    /\ res' = Result("tick", "Ok", NONE, NONE, NONE)
    /\ UNCHANGED <<paused, config, vault, balances, stats, plans, plan_counter, user_plans, frame>>

SharesOutstanding == \E u \in Users : balances[u].available_shares + balances[u].protected_shares > 0

\* The reserve's totals move (yield, losses, other depositors).
VaultChange ==
    /\ SharesOutstanding
    /\ vault' \in NonZeroTotals \ {vault}
    /\ res' = Result("vault_change", "Ok", NONE, NONE, NONE)
    /\ UNCHANGED <<now, paused, config, balances, stats, plans, plan_counter, user_plans, frame>>

EmergencyPause ==
    /\ paused' = TRUE
    /\ res' = Result("emergency_pause", "Ok", NONE, NONE, NONE)
    /\ UNCHANGED <<now, config, vault, balances, stats, plans, plan_counter, user_plans, frame>>

EmergencyUnpause ==
    /\ paused' = FALSE
    /\ res' = Result("emergency_unpause", "Ok", NONE, NONE, NONE)
    /\ UNCHANGED <<now, config, vault, balances, stats, plans, plan_counter, user_plans, frame>>

\* What the reserve may report minted: nothing, one share short of the
\* expected count, the expected count, one share more.
MintChoices(amount) ==
    {s \in {0, expected_shares(amount) - 1, expected_shares(amount), expected_shares(amount) + 1} : s >= 0}

MintChoicesExact(amount) == {s \in {0, expected_shares(amount)} : s >= 0}

Deposit(user, amount, actual_shares) ==
    LET r == deposit(Ledger, user, amount, actual_shares)
    IN /\ res' = Result("deposit", r.out, NONE, NONE, NONE)
       /\ balances' = Committed(r.out, balances, r.L.balances)
       /\ stats' = Committed(r.out, stats, r.L.stats)
       /\ vault' = IF r.out = "Ok" /\ vault = ZeroTotals THEN <<1, 1>> ELSE vault
       /\ UNCHANGED <<now, paused, config, plans, plan_counter, user_plans, frame>>

WithdrawAvailable(user, shares) ==
    LET r == withdraw_available(Ledger, user, shares)
    IN /\ res' = Result("withdraw_available", r.out, NONE, NONE, NONE)
       /\ balances' = Committed(r.out, balances, r.L.balances)
       /\ stats' = Committed(r.out, stats, r.L.stats)
       /\ UNCHANGED <<now, paused, config, vault, plans, plan_counter, user_plans, frame>>

CreatePlan(user, merchant, total_amount, installments_count, due_dates) ==
    LET r == create_plan(user, merchant, total_amount, installments_count, due_dates)
    IN /\ res' = Result("create_plan", r.out,
                        IF r.out = "Ok" THEN PlanId(plan_counter) ELSE NONE, NONE, NONE)
       /\ balances' = Committed(r.out, balances, r.L.balances)
       /\ stats' = Committed(r.out, stats, r.L.stats)
       /\ plans' = Committed(r.out, plans, r.plans)
       /\ plan_counter' = Committed(r.out, plan_counter, r.plan_counter)
       /\ user_plans' = Committed(r.out, user_plans, r.user_plans)
       /\ UNCHANGED <<now, paused, config, vault, frame>>

CollectInstallment(plan_id, installment_number, wraps) ==
    LET r == collect_installment(plan_id, installment_number, wraps)
    IN /\ res' = IF r.out \in {"PlanNotFound", "InstallmentNotFound", "attempt to subtract with overflow"}
                 THEN Result("collect_installment", r.out, NONE, NONE, NONE)
                 ELSE Result("collect_installment", r.out, plan_id, installment_number, r.src)
       /\ balances' = Committed(r.out, balances, r.L.balances)
       /\ stats' = Committed(r.out, stats, r.L.stats)
       /\ plans' = Committed(r.out, plans, StorePlan(plans, plan_id, r.plan))
       /\ UNCHANGED <<now, paused, config, vault, plan_counter, user_plans, frame>>

Amounts == 0..MaxAmount

DepositAmounts == {0, MaxDeposited}

WithdrawAmounts == {0, 2}

Dates == 1..(MaxTime + 1)

\* The (installments_count, due_dates) pairs a caller passes: up to MaxCount
\* installments all due on one date, and malformed pairs (a count of 0 or
\* above the maximum, a count that is not the number of dates).
Requests ==
    {<<n, <<>>>> : n \in {0, 1, MAX_INSTALLMENTS + 1}}
    \cup {<<n, [i \in 1..n |-> d]>> : n \in 1..MaxCount, d \in Dates}

\* The model stops a user's history at MaxVersion ledger mutations.
Open(u) == balances[u].version < MaxVersion

Next ==
    \/ Tick
    \/ VaultChange
    \/ \E u \in Users, amount \in DepositAmounts : \E minted \in MintChoicesExact(amount) :
          /\ Open(u)
          /\ balances[u].total_deposited + amount <= MaxDeposited
          /\ Deposit(u, amount, minted)
    \/ \E u \in Users, shares \in WithdrawAmounts :
          /\ Open(u)
          /\ WithdrawAvailable(u, shares)
    \/ \E u \in Users, m \in Merchants, amount \in Amounts, rq \in Requests :
          /\ Open(u)
          /\ plan_counter < MaxPlans
          /\ CreatePlan(u, m, amount, rq[1], rq[2])
    \/ \E id \in 0..MaxPlans, number \in 0..(MaxCount + 1) :
       \E wraps \in IF number = 0 THEN BOOLEAN ELSE {FALSE} :
          /\ \A u \in Users : Open(u)
          /\ CollectInstallment(id, number, wraps)

Spec == Init /\ [][Next]_vars

\* --------------------------------------------- the ledger on its own
\* The ledger driven directly through its entry points (the bridge-only
\* ones called with the bridge's authorization), over a longer time span
\* and against every kind of totals the reserve can report.
LedgerTotals == NonZeroTotals \cup {<<0, 0>>, <<0, 1>>, <<1, 0>>}

LedgerTick ==
    /\ now < MaxLedgerTime
    /\ now' = now + 1
    /\ res' = Result("tick", "Ok", NONE, NONE, NONE)
    /\ UNCHANGED <<paused, config, vault, balances, stats, plans, plan_counter, user_plans, frame>>

LedgerVaultChange ==
    /\ vault' \in LedgerTotals \ {vault}
    /\ res' = Result("vault_change", "Ok", NONE, NONE, NONE)
    /\ UNCHANGED <<now, paused, config, balances, stats, plans, plan_counter, user_plans, frame>>

update_config(min_deposit_interval, slippage_tolerance_bps) ==
    [min_deposit_interval |-> min_deposit_interval,
     slippage_tolerance_bps |-> slippage_tolerance_bps]

UpdateConfig(min_deposit_interval, slippage_tolerance_bps) ==
    /\ config' = update_config(min_deposit_interval, slippage_tolerance_bps)
    /\ config' # config
    /\ res' = Result("update_config", "Ok", NONE, NONE, NONE)
    /\ UNCHANGED <<now, paused, vault, balances, stats, plans, plan_counter, user_plans, frame>>

\* The configurations the administrator sets: the defaults, and a shorter
\* interval with a tolerance wide enough to show at small share counts.
ConfigChoices == {<<DEFAULT_MIN_INTERVAL_SECS, DEFAULT_SLIPPAGE_BPS>>, <<1, 5000>>}

\* An entry point of the ledger that touches only balances and stats.
LedgerCall(op, r) ==
    /\ res' = Result(op, r.out, NONE, NONE, NONE)
    /\ balances' = Committed(r.out, balances, r.L.balances)
    /\ stats' = Committed(r.out, stats, r.L.stats)
    /\ UNCHANGED <<now, paused, config, vault, plans, plan_counter, user_plans, frame>>

LockShares(user, shares) == LedgerCall("lock_shares", lock_shares(Ledger, user, shares))

UnlockShares(user, shares) == LedgerCall("unlock_shares", unlock_shares(Ledger, user, shares))

DebitAvailable(user, shares) ==
    LedgerCall("debit_available", debit_available(Ledger, user, shares))

DebitProtected(user, shares) ==
    LedgerCall("debit_protected", debit_protected(Ledger, user, shares))

LedgerAmounts == 0..MaxShares

ShareCounts == 0..MaxShares

LedgerOpen(u) == balances[u].version < MaxLedgerVersion

NextLedger ==
    \/ LedgerTick
    \/ LedgerVaultChange
    \/ EmergencyPause
    \/ EmergencyUnpause
    \/ \E c \in ConfigChoices : UpdateConfig(c[1], c[2])
    \/ \E u \in Users, amount \in LedgerAmounts : \E minted \in MintChoices(amount) :
          /\ LedgerOpen(u)
          /\ balances[u].total_deposited + amount <= MaxLedgerDeposited
          /\ Deposit(u, amount, minted)
    \/ \E u \in Users, shares \in ShareCounts :
          /\ LedgerOpen(u)
          /\ \/ WithdrawAvailable(u, shares)
             \/ LockShares(u, shares)
             \/ UnlockShares(u, shares)
             \/ DebitAvailable(u, shares)
             \/ DebitProtected(u, shares)

SpecLedger == Init /\ [][NextLedger]_vars

\* ------------------------------------------------ the pricing queries
\* shares_for_amount and get_values are read-only: they are applied to
\* every small balance against every totals pair the reserve can report.
\* res keeps the argument and the value of the last query.
Returned(op, out, arg, value) ==
    [op |-> op, out |-> out, plan |-> NONE, num |-> NONE, src |-> NONE,
     arg |-> arg, value |-> value]

InitPricing ==
    /\ now = 0
    /\ frame = NoFrame
    /\ paused = FALSE
    /\ config = DefaultConfig
    /\ vault \in (0..MaxTotal) \X (0..MaxTotal)
    /\ balances \in [Users -> {[DefaultBalance EXCEPT !.available_shares = a,
                                                     !.protected_shares = p,
                                                     !.version = 1] :
                                  a \in 0..MaxHeld, p \in 0..MaxHeld}]
    /\ stats = DefaultStats
    /\ plans = <<>>
    /\ plan_counter = 0
    /\ user_plans = [u \in Users |-> <<>>]
    /\ res = Returned("init", "Ok", NONE, NONE)

SharesForAmount(amount) ==
    /\ res' = IF shares_for_amount_panics(amount)
              THEN Returned("shares_for_amount", "Invalid amount", amount, NONE)
              ELSE Returned("shares_for_amount", "Ok", amount, shares_for_amount(amount))
    /\ UNCHANGED <<now, paused, config, vault, balances, stats, plans, plan_counter,
                   user_plans, frame>>

GetValues(user) ==
    /\ res' = Returned("get_values", "Ok", user, get_values(Ledger, user))
    /\ UNCHANGED <<now, paused, config, vault, balances, stats, plans, plan_counter,
                   user_plans, frame>>

QueryAmounts == (-1)..MaxAmount

NextPricing ==
    \/ \E amount \in QueryAmounts : SharesForAmount(amount)
    \/ \E u \in Users : GetValues(u)

SpecPricing == InitPricing /\ [][NextPricing]_vars

\* ------------------------------------------- deposit, call by call
\* deposit in two steps around its call to the reserve, so that a ledger
\* operation can run while the call is in flight (a re-entrant call made
\* from inside the reserve).  Everything between DepositCall and
\* DepositReturn is one invocation: when deposit panics, the storage goes
\* back to what it was at DepositCall.
deposit_call(L, user, amount) ==
    LET bal == get_balance_or_default(L, user)
    IN IF paused THEN Panic("Contract paused", L)
       ELSE IF amount < MIN_AMOUNT THEN Panic("Invalid amount", L)
       ELSE IF bal.last_deposit_ts > 0 /\ now < bal.last_deposit_ts
            THEN Panic("Invalid timestamp", L)
       ELSE IF bal.last_deposit_ts > 0
               /\ now - bal.last_deposit_ts < config.min_deposit_interval
            THEN Panic("Deposit too frequent", L)
       ELSE Done(L)

\* Variant: the balance is written back without comparing versions.
deposit_return_Unguarded(L, f, actual_shares) ==
    LET current_bal == get_balance_or_default(L, f.user)
    IN IF actual_shares <= 0 THEN Panic("Invalid vault response", L)
       ELSE IF actual_shares < f.min_shares_out THEN Panic("Slippage exceeded", L)
       ELSE Done(SetBalance(L, f.user,
                [current_bal EXCEPT !.available_shares = checked_add(@, actual_shares),
                                    !.total_deposited = checked_add(@, f.amount),
                                    !.last_deposit_ts = now,
                                    !.version = @ + 1],
                update_total_stats(L.stats, actual_shares, 0, f.amount, f.is_new_user)))

deposit_return(L, f, actual_shares) ==
    LET current_bal == get_balance_or_default(L, f.user)
    IN IF actual_shares <= 0 THEN Panic("Invalid vault response", L)
       ELSE IF actual_shares < f.min_shares_out THEN Panic("Slippage exceeded", L)
       ELSE IF current_bal.version # f.original_version
            THEN Panic("Concurrent modification", L)
       ELSE Done(SetBalance(L, f.user,
                [current_bal EXCEPT !.available_shares = checked_add(@, actual_shares),
                                    !.total_deposited = checked_add(@, f.amount),
                                    !.last_deposit_ts = now,
                                    !.version = @ + 1],
                update_total_stats(L.stats, actual_shares, 0, f.amount, f.is_new_user)))

DepositCall(user, amount) ==
    LET r == deposit_call(Ledger, user, amount)
        bal == get_balance_or_default(Ledger, user)
    IN /\ ~frame.active
       /\ res' = Result("deposit", IF r.out = "Ok" THEN "calling reserve" ELSE r.out,
                        NONE, NONE, NONE)
       /\ frame' = IF r.out = "Ok"
                   THEN [active |-> TRUE, user |-> user, amount |-> amount,
                         original_version |-> bal.version,
                         is_new_user |-> bal.version = 0,
                         min_shares_out |-> min_shares_out(amount),
                         entry |-> Ledger]
                   ELSE frame
       /\ UNCHANGED <<now, paused, config, vault, balances, stats, plans, plan_counter,
                      user_plans>>

DepositReturn(actual_shares) ==
    LET r == deposit_return(Ledger, frame, actual_shares)
    IN /\ frame.active
       /\ res' = Result("deposit", r.out, NONE, NONE, NONE)
       /\ balances' = Committed(r.out, frame.entry.balances, r.L.balances)
       /\ stats' = Committed(r.out, frame.entry.stats, r.L.stats)
       /\ vault' = IF r.out = "Ok" /\ vault = ZeroTotals THEN <<1, 1>> ELSE vault
       /\ frame' = NoFrame
       /\ UNCHANGED <<now, paused, config, plans, plan_counter, user_plans>>

NextReentrant ==
    \/ \E u \in Users, amount \in LedgerAmounts :
          /\ LedgerOpen(u)
          /\ balances[u].total_deposited + amount <= MaxLedgerDeposited
          /\ DepositCall(u, amount)
    \/ \E minted \in MintChoices(frame.amount) : DepositReturn(minted)
    \/ \E u \in Users, shares \in ShareCounts :
          /\ LedgerOpen(u)
          /\ \/ WithdrawAvailable(u, shares)
             \/ LockShares(u, shares)
             \/ UnlockShares(u, shares)
             \/ DebitAvailable(u, shares)
             \/ DebitProtected(u, shares)

SpecReentrant == Init /\ [][NextReentrant]_vars

\* ------------------------------------------- one plan, with the pause
\* Both contracts with the administrator able to pause and unpause the
\* ledger at any time, for a user who opens at most one plan.
NextPause ==
    \/ Tick
    \/ VaultChange
    \/ EmergencyPause
    \/ EmergencyUnpause
    \/ \E u \in Users : \E minted \in MintChoicesExact(MaxDeposited) :
          /\ Open(u)
          /\ balances[u].total_deposited = 0
          /\ Deposit(u, MaxDeposited, minted)
    \/ \E u \in Users, shares \in WithdrawAmounts :
          /\ Open(u)
          /\ WithdrawAvailable(u, shares)
    \/ \E u \in Users, m \in Merchants, amount \in Amounts, rq \in Requests :
          /\ Open(u)
          /\ plan_counter < 1
          /\ CreatePlan(u, m, amount, rq[1], rq[2])
    \/ \E id \in 0..1, number \in 1..(MaxCount + 1) :
          /\ \A u \in Users : Open(u)
          /\ CollectInstallment(id, number, FALSE)

SpecPause == Init /\ [][NextPause]_vars

\* ------------------------------------------ the reserve's calls fail
\* deposit and withdraw_internal call the reserve through its client: when
\* the reserve fails, the call traps and the invocation ends there, with
\* whatever it had written so far (which the host then discards).
\* reserve_ok tells whether the reserve carries the call out.
deposit_via_reserve(L, user, amount, actual_shares, reserve_ok) ==
    IF deposit_call(L, user, amount).out # "Ok" THEN deposit_call(L, user, amount)
    ELSE IF ~reserve_ok THEN Panic("Reserve call failed", L)
    ELSE deposit(L, user, amount, actual_shares)

\* The debited balance is written before the reserve is called, the stats
\* after.
withdraw_via_reserve(L, user, shares, from_protected, reserve_ok) ==
    LET r == withdraw_internal(L, user, shares, from_protected)
    IN IF r.out # "Ok" \/ reserve_ok THEN r
       ELSE Panic("Reserve call failed", [balances |-> r.L.balances, stats |-> L.stats])

withdraw_available_via_reserve(L, user, shares, reserve_ok) ==
    IF paused THEN Panic("Contract paused", L)
    ELSE withdraw_via_reserve(L, user, shares, FALSE, reserve_ok)

\* collect_installment when the debit's call to the reserve may fail: the
\* trap ends the collection with the debited balance written and the plan
\* not yet saved.
collect_installment_via_reserve(plan_id, installment_number, reserve_ok) ==
    LET r == collect_installment(plan_id, installment_number, FALSE)
        plan == plans[plan_id]
        shares_needed == shares_for_amount(plan.installments[installment_number].amount)
    IN IF r.src = NONE \/ reserve_ok THEN r
       ELSE [out |-> "Reserve call failed",
             plan |-> plan,
             L |-> withdraw_via_reserve(Ledger, plan.user, shares_needed,
                                        r.src = SOURCE_PROTECTED, FALSE).L,
             src |-> NONE]

DepositViaReserve(user, amount, actual_shares, reserve_ok) ==
    LET r == deposit_via_reserve(Ledger, user, amount, actual_shares, reserve_ok)
    IN /\ res' = Result("deposit", r.out, NONE, NONE, NONE)
       /\ balances' = Committed(r.out, balances, r.L.balances)
       /\ stats' = Committed(r.out, stats, r.L.stats)
       /\ vault' = IF r.out = "Ok" /\ vault = ZeroTotals THEN <<1, 1>> ELSE vault
       /\ UNCHANGED <<now, paused, config, plans, plan_counter, user_plans, frame>>

WithdrawAvailableViaReserve(user, shares, reserve_ok) ==
    LedgerCall("withdraw_available",
               withdraw_available_via_reserve(Ledger, user, shares, reserve_ok))

CollectInstallmentViaReserve(plan_id, installment_number, reserve_ok) ==
    LET r == collect_installment_via_reserve(plan_id, installment_number, reserve_ok)
    IN /\ res' = IF r.out \in {"PlanNotFound", "InstallmentNotFound"}
                 THEN Result("collect_installment", r.out, NONE, NONE, NONE)
                 ELSE Result("collect_installment", r.out, plan_id, installment_number, r.src)
       /\ balances' = Committed(r.out, balances, r.L.balances)
       /\ stats' = Committed(r.out, stats, r.L.stats)
       /\ plans' = Committed(r.out, plans, StorePlan(plans, plan_id, r.plan))
       /\ UNCHANGED <<now, paused, config, vault, plan_counter, user_plans, frame>>

\* Both contracts for a user who opens at most one plan, with the pause and
\* with a reserve that can fail any call made to it.
NextReserve ==
    \/ Tick
    \/ VaultChange
    \/ EmergencyPause
    \/ EmergencyUnpause
    \/ \E u \in Users, ok \in BOOLEAN : \E minted \in MintChoicesExact(MaxDeposited) :
          /\ Open(u)
          /\ balances[u].total_deposited = 0
          /\ DepositViaReserve(u, MaxDeposited, minted, ok)
    \/ \E u \in Users, shares \in WithdrawAmounts, ok \in BOOLEAN :
          /\ Open(u)
          /\ WithdrawAvailableViaReserve(u, shares, ok)
    \/ \E u \in Users, m \in Merchants, amount \in Amounts, rq \in Requests :
          /\ Open(u)
          /\ plan_counter < 1
          /\ CreatePlan(u, m, amount, rq[1], rq[2])
    \/ \E id \in 0..1, number \in 1..(MaxCount + 1), ok \in BOOLEAN :
          /\ \A u \in Users : Open(u)
          /\ CollectInstallmentViaReserve(id, number, ok)

SpecReserve == Init /\ [][NextReserve]_vars

\* ------------------------------------------------- the plan queries
\* Variant: an installment due exactly now is not yet returned.
first_due_Strict(plan, i) ==
    LET later == {k \in i..Len(plan.installments) :
                    /\ plan.installments[k].status = "Pending"
                    /\ plan.installments[k].due_date < now}
    IN IF later = {} THEN <<>>
       ELSE <<plan.installments[CHOOSE k \in later : \A j \in later : k <= j]>>

\* The scan of get_next_due from position i on: the first installment that
\* is Pending and due, or none.  The Option returned is a sequence of at
\* most one installment.
RECURSIVE first_due(_, _)
first_due(plan, i) ==
    IF i > Len(plan.installments) THEN <<>>
    ELSE IF plan.installments[i].status = "Pending" /\ plan.installments[i].due_date <= now
         THEN <<plan.installments[i]>>
         ELSE first_due(plan, i + 1)

get_next_due(plan_id) ==
    IF plan_id \notin DOMAIN plans
    THEN [out |-> "PlanNotFound", value |-> <<>>]
    ELSE [out |-> "Ok", value |-> first_due(plans[plan_id], 1)]

GetNextDue(plan_id) ==
    /\ res' = Returned("get_next_due", get_next_due(plan_id).out, plan_id,
                       get_next_due(plan_id).value)
    /\ UNCHANGED <<now, paused, config, vault, balances, stats, plans, plan_counter,
                   user_plans, frame>>

QueryTick ==
    /\ now < MaxQueryTime
    /\ now' = now + 1
    /\ res' = Result("tick", "Ok", NONE, NONE, NONE)
    /\ UNCHANGED <<paused, config, vault, balances, stats, plans, plan_counter, user_plans, frame>>

\* Due dates in any order.
QueryDates(n) == [1..n -> 1..MaxQueryTime]

QueryPlanAmounts == {2, 3}

\* One plan of a user, collected in any order while a worker polls
\* get_next_due.
NextQueries ==
    \/ QueryTick
    \/ \E u \in Users :
          /\ balances[u].total_deposited = 0
          /\ Deposit(u, MaxDeposited, MaxDeposited)
    \/ \E u \in Users, m \in Merchants, amount \in QueryPlanAmounts, n \in 1..MaxCount :
       \E dates \in QueryDates(n) :
          /\ plan_counter < 1
          /\ CreatePlan(u, m, amount, n, dates)
    \/ \E id \in 0..1, number \in 1..MaxCount : CollectInstallment(id, number, FALSE)
    \/ \E id \in 0..1 : GetNextDue(id)

SpecQueries == Init /\ [][NextQueries]_vars

\* ------------------------------------------- the ledger of two users
\* The ledger's entry points called for two users in any interleaving, at
\* the price the first deposit sets.
StatsUsers == {"alice", "bob"}

InitStats ==
    /\ now = 0
    /\ frame = NoFrame
    /\ paused = FALSE
    /\ config = DefaultConfig
    /\ vault = ZeroTotals
    /\ balances = [u \in StatsUsers |-> DefaultBalance]
    /\ stats = DefaultStats
    /\ plans = <<>>
    /\ plan_counter = 0
    /\ user_plans = [u \in StatsUsers |-> <<>>]
    /\ res = Result("init", "Ok", NONE, NONE, NONE)

StatsOpen(u) == balances[u].version < MaxStatsVersion

NextStats ==
    \/ \E u \in StatsUsers, amount \in LedgerAmounts : \E minted \in MintChoices(amount) :
          /\ StatsOpen(u)
          /\ balances[u].total_deposited + amount <= MaxLedgerDeposited
          /\ Deposit(u, amount, minted)
    \/ \E u \in StatsUsers, shares \in ShareCounts :
          /\ StatsOpen(u)
          /\ \/ WithdrawAvailable(u, shares)
             \/ LockShares(u, shares)
             \/ UnlockShares(u, shares)
             \/ DebitAvailable(u, shares)
             \/ DebitProtected(u, shares)

SpecStats == InitStats /\ [][NextStats]_vars

\* --------------------------------------- several plans, one price
\* A user who deposits once and opens several plans, while the reserve
\* keeps the price of the first deposit.
NextPlans ==
    \/ Tick
    \/ \E u \in Users, amount \in {MaxDeposited - 1, MaxDeposited} :
          /\ balances[u].total_deposited = 0
          /\ Deposit(u, amount, amount)
    \/ \E u \in Users, m \in Merchants, amount \in Amounts, rq \in Requests :
          /\ plan_counter < MaxPlans
          /\ CreatePlan(u, m, amount, rq[1], rq[2])
    \/ \E id \in 0..MaxPlans, number \in 1..(MaxCount + 1) :
          CollectInstallment(id, number, FALSE)

SpecPlans == Init /\ [][NextPlans]_vars

\* ------------------------------------------ a plan that has defaulted
\* The same operations with a record of the plans for which a collection
\* has ended with InsufficientFunds: res.defaulted.
Tracked(op, out, plan, num, src, defaulted) ==
    [op |-> op, out |-> out, plan |-> plan, num |-> num, src |-> src,
     defaulted |-> defaulted]

InitDefault ==
    /\ now = 0
    /\ frame = NoFrame
    /\ paused = FALSE
    /\ config = DefaultConfig
    /\ vault = ZeroTotals
    /\ balances = [u \in Users |-> DefaultBalance]
    /\ stats = DefaultStats
    /\ plans = <<>>
    /\ plan_counter = 0
    /\ user_plans = [u \in Users |-> <<>>]
    /\ res = Tracked("init", "Ok", NONE, NONE, NONE, {})

TickTracked ==
    /\ now < MaxTime
    /\ now' = now + 1
    /\ res' = Tracked("tick", "Ok", NONE, NONE, NONE, res.defaulted)
    /\ UNCHANGED <<paused, config, vault, balances, stats, plans, plan_counter, user_plans, frame>>

VaultChangeTracked ==
    /\ SharesOutstanding
    /\ vault' \in NonZeroTotals \ {vault}
    /\ res' = Tracked("vault_change", "Ok", NONE, NONE, NONE, res.defaulted)
    /\ UNCHANGED <<now, paused, config, balances, stats, plans, plan_counter, user_plans, frame>>

DepositTracked(user, amount, actual_shares) ==
    LET r == deposit(Ledger, user, amount, actual_shares)
    IN /\ res' = Tracked("deposit", r.out, NONE, NONE, NONE, res.defaulted)
       /\ balances' = Committed(r.out, balances, r.L.balances)
       /\ stats' = Committed(r.out, stats, r.L.stats)
       /\ vault' = IF r.out = "Ok" /\ vault = ZeroTotals THEN <<1, 1>> ELSE vault
       /\ UNCHANGED <<now, paused, config, plans, plan_counter, user_plans, frame>>

CreatePlanTracked(user, merchant, total_amount, installments_count, due_dates) ==
    LET r == create_plan(user, merchant, total_amount, installments_count, due_dates)
    IN /\ res' = Tracked("create_plan", r.out,
                         IF r.out = "Ok" THEN PlanId(plan_counter) ELSE NONE, NONE, NONE,
                         res.defaulted)
       /\ balances' = Committed(r.out, balances, r.L.balances)
       /\ stats' = Committed(r.out, stats, r.L.stats)
       /\ plans' = Committed(r.out, plans, r.plans)
       /\ plan_counter' = Committed(r.out, plan_counter, r.plan_counter)
       /\ user_plans' = Committed(r.out, user_plans, r.user_plans)
       /\ UNCHANGED <<now, paused, config, vault, frame>>

CollectInstallmentTracked(plan_id, installment_number) ==
    LET r == collect_installment(plan_id, installment_number, FALSE)
    IN /\ res' = Tracked("collect_installment", r.out,
                         IF plan_id \in DOMAIN plans THEN plan_id ELSE NONE,
                         installment_number, r.src,
                         IF r.out = "InsufficientFunds"
                         THEN res.defaulted \cup {plan_id}
                         ELSE res.defaulted)
       /\ balances' = Committed(r.out, balances, r.L.balances)
       /\ stats' = Committed(r.out, stats, r.L.stats)
       /\ plans' = Committed(r.out, plans, StorePlan(plans, plan_id, r.plan))
       /\ UNCHANGED <<now, paused, config, vault, plan_counter, user_plans, frame>>

NextDefault ==
    \/ TickTracked
    \/ VaultChangeTracked
    \/ \E u \in Users : \E amount \in {MaxDeposited - 1, MaxDeposited} :
          /\ balances[u].total_deposited = 0
          /\ DepositTracked(u, amount, expected_shares(amount))
    \/ \E u \in Users, m \in Merchants, amount \in Amounts, rq \in Requests :
          /\ plan_counter < MaxPlans
          /\ CreatePlanTracked(u, m, amount, rq[1], rq[2])
    \/ \E id \in 0..MaxPlans, number \in 1..(MaxCount + 1) :
          CollectInstallmentTracked(id, number)

SpecDefault == InitDefault /\ [][NextDefault]_vars

\* ------------------------------------------ withdraw, call by call
\* withdraw_internal in two steps around its call to the reserve: the
\* debited balance is stored before the call, the stats are updated after
\* it, and nothing else is written.  A ledger operation can run while the
\* call is in flight (a re-entrant call made from inside the reserve); it
\* is part of the outer invocation, so a failure of the outer invocation
\* discards it as well.  res keeps, per user, the shares minted by the
\* deposits and burned by the withdrawals and debits that have succeeded.
withdraw_call(L, user, shares, from_protected) ==
    LET bal == get_balance_or_default(L, user)
    IN IF shares < MIN_AMOUNT THEN Panic("Invalid amount", L)
       ELSE IF from_protected /\ bal.protected_shares < shares
            THEN Panic("Insufficient protected", L)
       ELSE IF ~from_protected /\ bal.available_shares < shares
            THEN Panic("Insufficient available", L)
       ELSE Done([L EXCEPT !.balances[user] =
                IF from_protected
                THEN [bal EXCEPT !.protected_shares = checked_sub(@, shares),
                                 !.version = @ + 1]
                ELSE [bal EXCEPT !.available_shares = checked_sub(@, shares),
                                 !.version = @ + 1]])

\* Variant: the balance held across the call is stored again after it.
withdraw_return_WritesBack(L, f) ==
    Done([balances |-> [L.balances EXCEPT ![f.user] = f.bal],
          stats |-> IF f.from_protected
                    THEN update_total_stats(L.stats, 0, -f.shares, 0, FALSE)
                    ELSE update_total_stats(L.stats, -f.shares, 0, 0, FALSE)])

\* After the reserve's withdraw has returned: f is the frame of the call.
withdraw_return(L, f) ==
    Done([balances |-> L.balances,
          stats |-> IF f.from_protected
                    THEN update_total_stats(L.stats, 0, -f.shares, 0, FALSE)
                    ELSE update_total_stats(L.stats, -f.shares, 0, 0, FALSE)])

\* reentered: a ledger call succeeded inside the invocation that just ended.
Counted(op, out, minted, burned, reentered) ==
    [op |-> op, out |-> out, plan |-> NONE, num |-> NONE, src |-> NONE,
     minted |-> minted, burned |-> burned, reentered |-> reentered]

Minted(u, n) == [res.minted EXCEPT ![u] = @ + n]

Burned(u, n) == [res.burned EXCEPT ![u] = @ + n]

BurnOps == {"withdraw_available", "debit_available", "debit_protected"}

InitConserve ==
    /\ now = 0
    /\ frame = NoFrame
    /\ paused = FALSE
    /\ config = DefaultConfig
    /\ vault = ZeroTotals
    /\ balances = [u \in StatsUsers |-> DefaultBalance]
    /\ stats = DefaultStats
    /\ plans = <<>>
    /\ plan_counter = 0
    /\ user_plans = [u \in StatsUsers |-> <<>>]
    /\ res = Counted("init", "Ok", [u \in StatsUsers |-> 0], [u \in StatsUsers |-> 0],
                     FALSE)

ConserveDepositCall(user, amount) ==
    LET r == deposit_call(Ledger, user, amount)
        bal == get_balance_or_default(Ledger, user)
    IN /\ ~frame.active
       /\ res' = Counted("deposit", IF r.out = "Ok" THEN "calling reserve" ELSE r.out,
                         res.minted, res.burned, FALSE)
       /\ frame' = IF r.out = "Ok"
                   THEN [active |-> TRUE, kind |-> "deposit", user |-> user,
                         amount |-> amount,
                         original_version |-> bal.version,
                         is_new_user |-> bal.version = 0,
                         min_shares_out |-> min_shares_out(amount),
                         entry |-> Ledger,
                         entry_minted |-> res.minted, entry_burned |-> res.burned,
                         reentered |-> FALSE]
                   ELSE frame
       /\ UNCHANGED <<now, paused, config, vault, balances, stats, plans, plan_counter,
                      user_plans>>

ConserveDepositReturn(actual_shares) ==
    LET r == deposit_return(Ledger, frame, actual_shares)
    IN /\ frame.active
       /\ frame.kind = "deposit"
       /\ res' = IF r.out = "Ok"
                 THEN Counted("deposit", "Ok", Minted(frame.user, actual_shares), res.burned,
                              frame.reentered)
                 ELSE Counted("deposit", r.out, frame.entry_minted, frame.entry_burned,
                              FALSE)
       /\ balances' = Committed(r.out, frame.entry.balances, r.L.balances)
       /\ stats' = Committed(r.out, frame.entry.stats, r.L.stats)
       /\ vault' = IF r.out = "Ok" /\ vault = ZeroTotals THEN <<1, 1>> ELSE vault
       /\ frame' = NoFrame
       /\ UNCHANGED <<now, paused, config, plans, plan_counter, user_plans>>

\* withdraw_available, debit_available or debit_protected up to the call
\* to the reserve.
ConserveWithdrawCall(op, user, shares) ==
    LET from_protected == op = "debit_protected"
        r == IF op = "withdraw_available" /\ paused
             THEN Panic("Contract paused", Ledger)
             ELSE withdraw_call(Ledger, user, shares, from_protected)
    IN /\ ~frame.active
       /\ res' = Counted(op, IF r.out = "Ok" THEN "calling reserve" ELSE r.out,
                         res.minted, res.burned, FALSE)
       /\ balances' = r.L.balances
       /\ frame' = IF r.out = "Ok"
                   THEN [active |-> TRUE, kind |-> "withdraw", op |-> op, user |-> user,
                         shares |-> shares, from_protected |-> from_protected,
                         bal |-> r.L.balances[user],
                         entry |-> Ledger,
                         entry_minted |-> res.minted, entry_burned |-> res.burned,
                         reentered |-> FALSE]
                   ELSE frame
       /\ UNCHANGED <<now, paused, config, vault, stats, plans, plan_counter, user_plans>>

\* The reserve's withdraw returns, or traps (reserve_ok = FALSE).
ConserveWithdrawReturn(reserve_ok) ==
    LET r == IF reserve_ok THEN withdraw_return(Ledger, frame)
             ELSE Panic("Reserve call failed", Ledger)
    IN /\ frame.active
       /\ frame.kind = "withdraw"
       /\ res' = IF r.out = "Ok"
                 THEN Counted(frame.op, "Ok", res.minted, Burned(frame.user, frame.shares),
                              frame.reentered)
                 ELSE Counted(frame.op, r.out, frame.entry_minted, frame.entry_burned,
                              FALSE)
       /\ balances' = Committed(r.out, frame.entry.balances, r.L.balances)
       /\ stats' = Committed(r.out, frame.entry.stats, r.L.stats)
       /\ frame' = NoFrame
       /\ UNCHANGED <<now, paused, config, vault, plans, plan_counter, user_plans>>

\* A whole ledger call made while the reserve is being called.
ReentrantCall(op, user, shares) ==
    LET r == CASE op = "withdraw_available" -> withdraw_available(Ledger, user, shares)
               [] op = "debit_available" -> debit_available(Ledger, user, shares)
               [] op = "debit_protected" -> debit_protected(Ledger, user, shares)
               [] op = "lock_shares" -> lock_shares(Ledger, user, shares)
               [] op = "unlock_shares" -> unlock_shares(Ledger, user, shares)
    IN /\ frame.active
       /\ res' = Counted(op, r.out, res.minted,
                         IF r.out = "Ok" /\ op \in BurnOps
                         THEN Burned(user, shares) ELSE res.burned,
                         FALSE)
       /\ balances' = Committed(r.out, balances, r.L.balances)
       /\ stats' = Committed(r.out, stats, r.L.stats)
       /\ frame' = [frame EXCEPT !.reentered = @ \/ r.out = "Ok"]
       /\ UNCHANGED <<now, paused, config, vault, plans, plan_counter, user_plans>>

\* A whole deposit made while the reserve is being called.
ReentrantDeposit(user, amount, actual_shares) ==
    LET r == deposit(Ledger, user, amount, actual_shares)
    IN /\ frame.active
       /\ res' = Counted("deposit", r.out,
                         IF r.out = "Ok" THEN Minted(user, actual_shares) ELSE res.minted,
                         res.burned, FALSE)
       /\ balances' = Committed(r.out, balances, r.L.balances)
       /\ stats' = Committed(r.out, stats, r.L.stats)
       /\ frame' = [frame EXCEPT !.reentered = @ \/ r.out = "Ok"]
       /\ UNCHANGED <<now, paused, config, vault, plans, plan_counter, user_plans>>

\* lock_shares and unlock_shares between the invocations.
ConserveMove(op, user, shares) ==
    LET r == IF op = "lock_shares" THEN lock_shares(Ledger, user, shares)
             ELSE unlock_shares(Ledger, user, shares)
    IN /\ ~frame.active
       /\ res' = Counted(op, r.out, res.minted, res.burned, FALSE)
       /\ balances' = Committed(r.out, balances, r.L.balances)
       /\ stats' = Committed(r.out, stats, r.L.stats)
       /\ UNCHANGED <<now, paused, config, vault, plans, plan_counter, user_plans, frame>>

\* The sum of f[u] over the users of set S.
RECURSIVE SumOver(_, _)
SumOver(f, S) ==
    IF S = {} THEN 0
    ELSE LET u == CHOOSE v \in S : TRUE IN f[u] + SumOver(f, S \ {u})

\* The model stops the history at MaxConserveOps ledger mutations.
ConserveOpen == SumOver([u \in StatsUsers |-> balances[u].version], StatsUsers) < MaxConserveOps

NextConserve ==
    \/ \E u \in StatsUsers, amount \in LedgerAmounts :
          /\ ConserveOpen
          /\ balances[u].total_deposited + amount <= MaxLedgerDeposited
          /\ ConserveDepositCall(u, amount)
    \/ /\ frame.active
       /\ frame.kind = "deposit"
       /\ \E minted \in MintChoices(frame.amount) : ConserveDepositReturn(minted)
    \/ \E op \in BurnOps, u \in StatsUsers, shares \in ShareCounts :
          /\ ConserveOpen
          /\ ConserveWithdrawCall(op, u, shares)
    \/ \E reserve_ok \in BOOLEAN : ConserveWithdrawReturn(reserve_ok)
    \/ \E op \in BurnOps \cup {"lock_shares", "unlock_shares"}, u \in StatsUsers,
          shares \in ShareCounts :
          /\ ConserveOpen
          /\ ReentrantCall(op, u, shares)
    \/ \E u \in StatsUsers, amount \in LedgerAmounts :
          /\ ConserveOpen
          /\ balances[u].total_deposited + amount <= MaxLedgerDeposited
          /\ ReentrantDeposit(u, amount, expected_shares(amount))
    \/ \E op \in {"lock_shares", "unlock_shares"}, u \in StatsUsers, shares \in ShareCounts :
          /\ ConserveOpen
          /\ ConserveMove(op, u, shares)

SpecConserve == InitConserve /\ [][NextConserve]_vars

\* ------------------------------------------------------------- claims
RECURSIVE SumAmounts(_, _)
SumAmounts(installments, n) ==
    IF n = 0 THEN 0 ELSE installments[n].amount + SumAmounts(installments, n - 1)

\* ------------------------------------------- who receives a payment
\* collect_installment takes the recipient from its caller: merchant_address
\* is handed to debit_available / debit_protected as `to`, and
\* withdraw_internal hands `to` to the reserve's withdraw.
PaymentRecipient(plan, merchant_address) == merchant_address

\* The addresses a caller may pass as merchant_address.
Payees == Merchants \cup {"mallory"}

\* res keeps the merchant_address passed (arg) and the address the reserve
\* paid (value).
CollectInstallmentFor(plan_id, installment_number, merchant_address) ==
    LET r == collect_installment(plan_id, installment_number, FALSE)
    IN /\ res' = [Returned("collect_installment", r.out, merchant_address,
                           IF r.out = "Ok"
                           THEN PaymentRecipient(plans[plan_id], merchant_address)
                           ELSE NONE)
                     EXCEPT !.plan = IF plan_id \in DOMAIN plans THEN plan_id ELSE NONE,
                            !.num = installment_number,
                            !.src = r.src]
       /\ balances' = Committed(r.out, balances, r.L.balances)
       /\ stats' = Committed(r.out, stats, r.L.stats)
       /\ plans' = Committed(r.out, plans, StorePlan(plans, plan_id, r.plan))
       /\ UNCHANGED <<now, paused, config, vault, plan_counter, user_plans, frame>>

NextPayee ==
    \/ Tick
    \/ \E u \in Users, amount \in {MaxDeposited - 1, MaxDeposited} :
          /\ balances[u].total_deposited = 0
          /\ Deposit(u, amount, amount)
    \/ \E u \in Users, m \in Merchants, amount \in Amounts, rq \in Requests :
          /\ plan_counter < MaxPlans
          /\ CreatePlan(u, m, amount, rq[1], rq[2])
    \/ \E id \in 0..MaxPlans, number \in 1..(MaxCount + 1), to \in Payees :
          CollectInstallmentFor(id, number, to)

SpecPayee == Init /\ [][NextPayee]_vars

PlanIds == DOMAIN plans

\* The ledger value figures of a user in the current state.
AvailableValue(u) == get_values(Ledger, u)[1]

TotalValue(u) == get_values(Ledger, u)[3]

LtvCeiling(u) == (TotalValue(u) * 8000) \div 10000

\* The last step was this call, with this outcome.
Called(op, out) == res.op = op /\ res.out = out

\* C1: every stored plan's installments sum exactly to total_amount: all but
\* the last equal floor(total_amount / installments_count), and the last is
\* that quotient plus total_amount mod installments_count.
C1_InstallmentsSumToTotal ==
    \A id \in PlanIds :
        LET p == plans[id]
            n == p.installments_count
        IN /\ Len(p.installments) = n
           /\ SumAmounts(p.installments, n) = p.total_amount
           /\ \A i \in 1..(n - 1) : p.installments[i].amount = p.total_amount \div n
           /\ p.installments[n].amount = (p.total_amount \div n) + (p.total_amount % n)

\* A plan was just created whose total does not divide evenly.
C1_Witness ==
    /\ Called("create_plan", "Ok")
    /\ plans[res.plan].installments_count = 2
    /\ plans[res.plan].total_amount % 2 = 1

\* C2: in every reachable state and for every request, create_plan succeeds
\* only if total_amount is at most floor(totalValue * 8000 / 10000); a
\* well-formed request above that ceiling fails with ExceedsMaxLTV and
\* leaves storage as it was; a request at or below the ceiling is never
\* rejected with ExceedsMaxLTV; a created plan is stored Active.
C2_LtvCeilingEnforced ==
    /\ Called("create_plan", "Ok") =>
        /\ plans[res.plan].total_amount <= LtvCeiling(plans[res.plan].user)
        /\ plans[res.plan].status = "Active"
    /\ \A u \in Users, m \in Merchants, amount \in Amounts, rq \in Requests :
        LET r == create_plan(u, m, amount, rq[1], rq[2])
            well_formed == BasicValidation(amount, rq[1], rq[2]) = "Ok"
        IN /\ r.out = "Ok" =>
                /\ amount <= LtvCeiling(u)
                /\ r.plans[PlanId(plan_counter)].status = "Active"
                /\ r.plans[PlanId(plan_counter)].total_amount = amount
           /\ (well_formed /\ amount > LtvCeiling(u)) =>
                /\ r.out = "ExceedsMaxLTV"
                /\ Committed(r.out, plans, r.plans) = plans
                /\ Committed(r.out, plan_counter, r.plan_counter) = plan_counter
                /\ Committed(r.out, Ledger, r.L) = Ledger
           /\ (well_formed /\ amount <= LtvCeiling(u)) => r.out # "ExceedsMaxLTV"

\* A request exactly at the ceiling of a user worth 5 was accepted (4 of 5),
\* and the request one unit above it is the one rejected for LTV.
C2_Witness ==
    /\ Called("create_plan", "Ok")
    /\ TotalValue(plans[res.plan].user) = 5
    /\ plans[res.plan].total_amount = 4
    /\ plans[res.plan].status = "Active"
    /\ CollateralValidation(5, AvailableValue(plans[res.plan].user),
                            TotalValue(plans[res.plan].user)) = "ExceedsMaxLTV"

\* C3: create_plan checks LTV before availability: a well-formed request
\* above both the LTV ceiling and the available value fails with
\* ExceedsMaxLTV, and InsufficientAvailable is returned only for a request
\* within the ceiling and above the available value.
C3_LtvBeforeAvailability ==
    \A u \in Users, m \in Merchants, amount \in Amounts, rq \in Requests :
        LET out == create_plan(u, m, amount, rq[1], rq[2]).out
            well_formed == BasicValidation(amount, rq[1], rq[2]) = "Ok"
        IN /\ (well_formed /\ amount > LtvCeiling(u) /\ amount > AvailableValue(u))
                => out = "ExceedsMaxLTV"
           /\ (well_formed /\ amount <= LtvCeiling(u) /\ amount > AvailableValue(u))
                => out = "InsufficientAvailable"
           /\ out = "InsufficientAvailable"
                => (amount <= LtvCeiling(u) /\ amount > AvailableValue(u))

\* A request was rejected for LTV in a state where the available value is
\* below the ceiling, so that it exceeded both; and in that state a request
\* between the two is rejected for availability.
C3_Witness ==
    /\ Called("create_plan", "ExceedsMaxLTV")
    /\ \E u \in Users :
        /\ AvailableValue(u) < LtvCeiling(u)
        /\ \E amount \in Amounts : amount > AvailableValue(u) /\ amount <= LtvCeiling(u)

\* C4: a plan stored as Completed or Defaulted keeps that status in every
\* later state.
C4_TerminalPlanStatusAbsorbing ==
    [][\A id \in PlanIds :
          plans[id].status \in {"Completed", "Defaulted"} =>
              /\ id \in DOMAIN plans'
              /\ plans'[id].status = plans[id].status]_vars

\* A collection was attempted on a plan that is Completed.
C4_Witness ==
    /\ res.op = "collect_installment"
    /\ res.plan \in PlanIds
    /\ plans[res.plan].status = "Completed"
    /\ res.out # "Ok"

\* C5: an installment that is Paid or Failed keeps its status in every later
\* state, and a collection of such an installment fails with AlreadyPaid
\* and changes neither the plans nor the ledger.
C5_InstallmentStatusTerminal ==
    /\ [](\A id \in PlanIds : \A num \in 1..Len(plans[id].installments) :
            plans[id].installments[num].status \in {"Paid", "Failed"} =>
                \A wraps \in BOOLEAN :
                    collect_installment(id, num, wraps).out = "AlreadyPaid")
    /\ [][/\ \A id \in PlanIds : \A num \in 1..Len(plans[id].installments) :
                plans[id].installments[num].status \in {"Paid", "Failed"} =>
                    /\ id \in DOMAIN plans'
                    /\ plans'[id].installments[num].status
                           = plans[id].installments[num].status
          /\ (res'.op = "collect_installment" /\ res'.out = "AlreadyPaid") =>
                (plans' = plans /\ balances' = balances /\ stats' = stats
                 /\ plan_counter' = plan_counter /\ user_plans' = user_plans)]_vars

\* A collection of an installment already Paid was just refused.
C5_Witness ==
    /\ Called("collect_installment", "AlreadyPaid")
    /\ plans[res.plan].installments[res.num].status = "Paid"

\* C6: after a collection that ended with InsufficientFunds, the stored plan
\* has that installment Failed and the plan Defaulted.
C6_DefaultIsCommitted ==
    Called("collect_installment", "InsufficientFunds") =>
        /\ plans[res.plan].installments[res.num].status = "Failed"
        /\ plans[res.plan].status = "Defaulted"

\* The shares a collection step charged, and what it did to the plan (read
\* in the state before the step; the step leaves the reserve's totals alone).
StepPlan == plans[res'.plan]

StepNeeded == shares_for_amount(StepPlan.installments[res'.num].amount)

StepProportional == (StepNeeded * StepPlan.total_shares) \div StepPlan.total_amount

StepCompletes ==
    \A i \in 1..Len(StepPlan.installments) :
        i # res'.num => StepPlan.installments[i].status = "Paid"

\* What is left of the plan's protected shares after the release of this
\* step, when the step pays the last installment and it is positive.
StepResidual(reduced) == IF StepCompletes /\ reduced > 0 THEN reduced ELSE 0

CollectedFrom(source) ==
    /\ res'.op = "collect_installment"
    /\ res'.out = "Ok"
    /\ res'.src = source

StepMarksPaid(source) ==
    /\ plans'[res'.plan].installments[res'.num].status = "Paid"
    /\ plans'[res'.plan].installments[res'.num].payment_source = source
    /\ plans'[res'.plan].installments[res'.num].paid_at = now

\* A pending, due installment is paid from the available pool exactly when
\* that pool holds the shares needed, from the protected pool when only that
\* one does.
PoolChosen ==
    \A id \in PlanIds : \A num \in 1..Len(plans[id].installments) :
        LET inst == plans[id].installments[num]
            needed == shares_for_amount(inst.amount)
            bal == balances[plans[id].user]
            r == collect_installment(id, num, FALSE)
        IN (inst.status = "Pending" /\ now >= inst.due_date /\ inst.amount >= 1
            /\ r.out = "Ok") =>
              /\ bal.available_shares >= needed => r.src = SOURCE_AVAILABLE
              /\ (bal.available_shares < needed /\ bal.protected_shares >= needed)
                    => r.src = SOURCE_PROTECTED
              /\ bal.available_shares >= needed \/ bal.protected_shares >= needed

C9_CompletedHoldsNoCollateral ==
    \A id \in PlanIds : plans[id].status = "Completed" => plans[id].protected_shares = 0

\* C10: no plan's protected_shares is ever negative.
C10_PlanProtectedNonNegative ==
    \A id \in PlanIds : plans[id].protected_shares >= 0

\* C11: under every interleaving of the ledger's operations, every user's
\* available_shares and protected_shares are at least 0.
C11_PoolsNonNegative ==
    \A u \in Users :
        /\ balances[u].available_shares >= 0
        /\ balances[u].protected_shares >= 0

\* A debit just emptied the protected pool of a user whose available pool
\* is empty too, after a deposit.
C11_Witness ==
    /\ Called("debit_protected", "Ok")
    /\ \E u \in Users :
        /\ balances[u].total_deposited > 0
        /\ balances[u].available_shares = 0
        /\ balances[u].protected_shares = 0

\* C12: shares_for_amount fails for amount < 1; returns amount when the
\* reserve reports zero total shares or zero total managed value; otherwise
\* returns the least s with s * totalManaged >= amount * totalShares, and
\* the floor-priced value of that s is at least amount.
C12_SharesForAmountCeiling ==
    /\ \A amount \in QueryAmounts :
        /\ shares_for_amount_panics(amount) <=> amount < 1
        /\ amount >= 1 =>
            LET s == shares_for_amount(amount)
            IN IF total_shares = 0 \/ total_managed = 0
               THEN s = amount
               ELSE /\ s * total_managed >= amount * total_shares
                    /\ (s - 1) * total_managed < amount * total_shares
                    /\ (s * total_managed) \div total_shares >= amount
    /\ res.op = "shares_for_amount" =>
        /\ res.out = "Ok" <=> res.arg >= 1
        /\ res.out # "Ok" => res.out = "Invalid amount"
        /\ (res.out = "Ok" /\ total_shares > 0 /\ total_managed > 0) =>
            /\ res.value * total_managed >= res.arg * total_shares
            /\ (res.value - 1) * total_managed < res.arg * total_shares

\* The query just returned a count that was rounded up.
C12_Witness ==
    /\ Called("shares_for_amount", "Ok")
    /\ total_shares > 0
    /\ total_managed > 0
    /\ res.value * total_managed > res.arg * total_shares

\* C13: get_values returns <<availableValue, protectedValue, totalValue>>
\* with availableValue = floor(available_shares * totalManaged / totalShares),
\* totalValue = floor((available_shares + protected_shares) * totalManaged /
\* totalShares) and protectedValue = totalValue - availableValue; the first
\* two add up to the third, none is negative, and all are 0 when the
\* reserve has zero total shares.
C13_GetValuesFloorPriced ==
    /\ \A u \in Users :
        LET v == get_values(Ledger, u)
            a == balances[u].available_shares
            p == balances[u].protected_shares
        IN /\ total_shares > 0 =>
                /\ v[1] = (a * total_managed) \div total_shares
                /\ v[3] = ((a + p) * total_managed) \div total_shares
           /\ total_shares = 0 => v = <<0, 0, 0>>
           /\ v[2] = v[3] - v[1]
           /\ v[1] + v[2] = v[3]
           /\ v[1] >= 0 /\ v[2] >= 0 /\ v[3] >= 0
    /\ res.op = "get_values" => res.value = get_values(Ledger, res.arg)

\* The query just priced a balance with shares in both pools, and the total
\* value was rounded down.
C13_Witness ==
    /\ Called("get_values", "Ok")
    /\ res.value[1] > 0
    /\ res.value[2] > 0
    /\ total_shares > 0
    /\ res.value[3] * total_shares
         < (balances[res.arg].available_shares + balances[res.arg].protected_shares)
             * total_managed

\* A user who has deposited: total_deposited grows by at least 1 with every
\* successful deposit, and last_deposit_ts is then the time of the latest.
HasDeposited(u) == balances[u].total_deposited > 0

\* C14: while the ledger is not paused, a deposit of a valid amount by a
\* user whose latest successful deposit was at t0 fails with "Deposit too
\* frequent" whenever now - t0 < min_deposit_interval, for every t0
\* including 0; it is not throttled when now - t0 = min_deposit_interval;
\* and a first deposit is never throttled.
C14_ThrottleEnforced ==
    \A u \in Users, amount \in 1..MaxShares : \A minted \in MintChoices(amount) :
        LET out == deposit(Ledger, u, amount, minted).out
            elapsed == now - balances[u].last_deposit_ts
        IN ~paused =>
            /\ (HasDeposited(u) /\ elapsed < config.min_deposit_interval)
                    => out = "Deposit too frequent"
            /\ (HasDeposited(u) /\ elapsed = config.min_deposit_interval)
                    => out # "Deposit too frequent"
            /\ ~HasDeposited(u) => out # "Deposit too frequent"

\* The least minted count deposit accepts for amount, from the spec's formula.
SlippageFloor(amount) ==
    shares_for_amount(amount)
        - ((shares_for_amount(amount) * config.slippage_tolerance_bps) \div 10000)

\* deposit gets as far as its call to the reserve.
ReachesReserve(u, amount) ==
    /\ ~paused
    /\ amount >= 1
    /\ ~(balances[u].last_deposit_ts > 0
         /\ now - balances[u].last_deposit_ts < config.min_deposit_interval)

\* C15: deposit succeeds only if the minted count is > 0 and at least
\* expected - floor(expected * slippage_bps / 10000); a deposit that reaches
\* the reserve fails with "Invalid vault response" when the count is <= 0
\* and with "Slippage exceeded" when it is positive and below that floor,
\* and succeeds otherwise; a deposit that failed either way changed neither
\* the balances nor the stats.
C15_SlippageGuard ==
    /\ [](\A u \in Users, amount \in LedgerAmounts : \A minted \in MintChoices(amount) :
            LET out == deposit(Ledger, u, amount, minted).out
            IN /\ out = "Ok" => (minted > 0 /\ minted >= SlippageFloor(amount))
               /\ ReachesReserve(u, amount) =>
                    /\ minted <= 0 => out = "Invalid vault response"
                    /\ (minted > 0 /\ minted < SlippageFloor(amount))
                            => out = "Slippage exceeded"
                    /\ (minted > 0 /\ minted >= SlippageFloor(amount)) => out = "Ok")
    /\ [][(res'.op = "deposit"
           /\ res'.out \in {"Invalid vault response", "Slippage exceeded"})
            => (balances' = balances /\ stats' = stats)]_vars

\* A first deposit of 2 was accepted with 1 share minted, inside the
\* configured tolerance of one half.
C15_Witness ==
    /\ Called("deposit", "Ok")
    /\ config.slippage_tolerance_bps = 5000
    /\ vault = <<1, 1>>
    /\ \E u \in Users :
        /\ balances[u].version = 1
        /\ balances[u].total_deposited = 2
        /\ balances[u].available_shares = 1

\* The balance of the depositing user changed version since deposit read it.
MutatedInFlight ==
    frame.active /\ balances[frame.user].version # frame.original_version

\* C16: when the depositing user's balance changed version while deposit's
\* call to the reserve was in flight, deposit fails ("Concurrent
\* modification" once the minted count has passed its checks) and writes no
\* balance; a deposit that succeeds found the version it first read, and
\* adds to the balance as it is now.
C16_StaleReadNeverCommitted ==
    /\ [](MutatedInFlight =>
            \A minted \in MintChoices(frame.amount) :
                LET out == deposit_return(Ledger, frame, minted).out
                IN /\ out # "Ok"
                   /\ (minted > 0 /\ minted >= frame.min_shares_out)
                        => out = "Concurrent modification")
    /\ [][(frame.active /\ ~frame'.active) =>
            LET u == frame.user
            IN /\ MutatedInFlight =>
                    /\ res'.out # "Ok"
                    /\ balances' = frame.entry.balances
                    /\ stats' = frame.entry.stats
               /\ res'.out = "Ok" =>
                    /\ balances[u].version = frame.original_version
                    /\ balances'[u].available_shares > balances[u].available_shares
                    /\ balances'[u].protected_shares = balances[u].protected_shares
                    /\ balances'[u].total_deposited
                         = balances[u].total_deposited + frame.amount
                    /\ balances'[u].version = balances[u].version + 1]_vars

\* deposit just failed on the version check: shares were locked while its
\* call to the reserve was in flight, and the balance is the one from
\* before the deposit began.
C16_Witness ==
    /\ Called("deposit", "Concurrent modification")
    /\ ~frame.active
    /\ \E u \in Users : balances[u].version > 0

\* C17: a successful deposit adds exactly the minted share count to the
\* user's available_shares and amount to total_deposited, sets
\* last_deposit_ts to the current time and leaves protected_shares as it
\* was; and no step of any operation lowers a user's total_deposited.
C17_DepositEffect ==
    /\ [](\A u \in Users, amount \in LedgerAmounts : \A minted \in MintChoices(amount) :
            LET r == deposit(Ledger, u, amount, minted)
                before == balances[u]
                after == r.L.balances[u]
            IN r.out = "Ok" =>
                /\ after.available_shares = before.available_shares + minted
                /\ after.total_deposited = before.total_deposited + amount
                /\ after.last_deposit_ts = now
                /\ after.protected_shares = before.protected_shares
                /\ \A v \in Users \ {u} : r.L.balances[v] = balances[v])
    /\ [][/\ \A u \in Users : balances'[u].total_deposited >= balances[u].total_deposited
          /\ (res'.op = "deposit" /\ res'.out = "Ok") =>
                \E u \in Users, amount \in LedgerAmounts :
                \E minted \in MintChoices(amount) :
                    /\ deposit(Ledger, u, amount, minted).out = "Ok"
                    /\ balances' = deposit(Ledger, u, amount, minted).L.balances
                    /\ stats' = deposit(Ledger, u, amount, minted).L.stats]_vars

\* A first deposit of 2 at a price of 1 was credited with the 3 shares the
\* reserve minted, one more than expected.
C17_Witness ==
    /\ Called("deposit", "Ok")
    /\ vault = <<1, 1>>
    /\ \E u \in Users :
        /\ balances[u].version = 1
        /\ balances[u].total_deposited = 2
        /\ balances[u].available_shares = 3
        /\ balances[u].last_deposit_ts = now

\* C18: a successful lock_shares(u, s) / unlock_shares(u, s) moves exactly s
\* shares from the available to the protected pool / back, leaving their
\* sum, total_deposited and last_deposit_ts unchanged; lock fails when
\* available_shares < s and unlock when protected_shares < s, changing
\* nothing; unlock(s) after lock(s) restores the pools; and neither step
\* changes the reserve's totals.
C18_LockUnlockMoveShares ==
    /\ [](\A u \in Users, s \in ShareCounts :
            LET b == balances[u]
                l == lock_shares(Ledger, u, s)
                n == unlock_shares(Ledger, u, s)
                back == unlock_shares(l.L, u, s)
            IN /\ l.out = "Ok" =>
                    /\ l.L.balances[u] = [b EXCEPT !.available_shares = @ - s,
                                                   !.protected_shares = @ + s,
                                                   !.version = @ + 1]
                    /\ back.out = "Ok"
                    /\ back.L.balances[u].available_shares = b.available_shares
                    /\ back.L.balances[u].protected_shares = b.protected_shares
               /\ n.out = "Ok" =>
                    n.L.balances[u] = [b EXCEPT !.protected_shares = @ - s,
                                                !.available_shares = @ + s,
                                                !.version = @ + 1]
               /\ b.available_shares < s => (l.out # "Ok" /\ l.L = Ledger)
               /\ (b.available_shares < s /\ s >= 1 /\ ~paused)
                    => l.out = "Insufficient available"
               /\ b.protected_shares < s => (n.out # "Ok" /\ n.L = Ledger)
               /\ (b.protected_shares < s /\ s >= 1) => n.out = "Insufficient protected"
               /\ (b.available_shares >= s /\ s >= 1 /\ ~paused) => l.out = "Ok"
               /\ (b.protected_shares >= s /\ s >= 1) => n.out = "Ok")
    /\ [][res'.op \in {"lock_shares", "unlock_shares"} =>
            /\ vault' = vault
            /\ \E u \in Users, s \in ShareCounts :
                LET r == IF res'.op = "lock_shares" THEN lock_shares(Ledger, u, s)
                                                    ELSE unlock_shares(Ledger, u, s)
                IN /\ res'.out = r.out
                   /\ balances' = Committed(r.out, balances, r.L.balances)
                   /\ \A v \in Users :
                        /\ balances'[v].available_shares + balances'[v].protected_shares
                             = balances[v].available_shares + balances[v].protected_shares
                        /\ balances'[v].total_deposited = balances[v].total_deposited
                        /\ balances'[v].last_deposit_ts = balances[v].last_deposit_ts]_vars

\* The 2 shares of a deposit were locked and have just been unlocked again.
C18_Witness ==
    /\ Called("unlock_shares", "Ok")
    /\ \E u \in Users :
        /\ balances[u].version = 3
        /\ balances[u].total_deposited = 2
        /\ balances[u].available_shares = 2
        /\ balances[u].protected_shares = 0

\* What unlock, the two debits and a collection would do in this state.
UngatedOutcomes ==
    [unlock |-> [u \in Users, s \in ShareCounts |-> unlock_shares(Ledger, u, s)],
     debit_available |-> [u \in Users, s \in ShareCounts |-> debit_available(Ledger, u, s)],
     debit_protected |-> [u \in Users, s \in ShareCounts |-> debit_protected(Ledger, u, s)],
     collect |-> [id \in PlanIds, num \in 1..MaxCount |-> collect_installment(id, num, FALSE)]]

\* C19: while the ledger is paused, deposit, withdraw_available and
\* lock_shares fail with "Contract paused" for every input and create_plan
\* cannot succeed, and a step of any of them changes nothing; a step that
\* sets or clears the pause leaves what unlock_shares, debit_available,
\* debit_protected and collect_installment (with its completion unlock)
\* would do exactly as it was.
C19_PauseGatesEntryNotRelease ==
    /\ [](paused =>
            /\ \A u \in Users, amount \in LedgerAmounts : \A minted \in MintChoices(amount) :
                    deposit(Ledger, u, amount, minted) = Panic("Contract paused", Ledger)
            /\ \A u \in Users, s \in ShareCounts :
                    /\ withdraw_available(Ledger, u, s) = Panic("Contract paused", Ledger)
                    /\ lock_shares(Ledger, u, s) = Panic("Contract paused", Ledger)
            /\ \A u \in Users, m \in Merchants, amount \in Amounts, rq \in Requests :
                    create_plan(u, m, amount, rq[1], rq[2]).out # "Ok")
    /\ [][/\ (paused /\ res'.op \in {"deposit", "withdraw_available", "lock_shares",
                                     "create_plan"})
                => /\ res'.out # "Ok"
                   /\ UNCHANGED <<balances, stats, plans, plan_counter, user_plans, vault>>
          /\ paused' # paused => UngatedOutcomes' = UngatedOutcomes]_vars

\* While the ledger was paused, the only installment of the user's plan was
\* just collected and the plan's remaining collateral unlocked: deposit,
\* lock, debit and unlock are the four changes of the balance, and the
\* shares held are the 5 deposited less the ones debited.
C19_Witness ==
    /\ paused
    /\ Called("collect_installment", "Ok")
    /\ plans[res.plan].status = "Completed"
    /\ plans[res.plan].installments_count = 1
    /\ plans[res.plan].protected_shares = 0
    /\ LET b == balances[plans[res.plan].user]
       IN /\ b.version = 4
          /\ b.available_shares + b.protected_shares
               = MaxDeposited - shares_for_amount(plans[res.plan].total_amount)

\* What a debit of s shares from one pool of balance b must return.
DebitOutcome(r, u, s, from_protected) ==
    LET b == balances[u]
        named == IF from_protected THEN b.protected_shares ELSE b.available_shares
    IN IF s < 1 THEN r = Panic("Invalid amount", Ledger)
       ELSE IF named < s
       THEN r = Panic(IF from_protected THEN "Insufficient protected"
                                        ELSE "Insufficient available", Ledger)
       ELSE /\ r.out = "Ok"
            /\ r.L.balances =
                 [balances EXCEPT ![u] =
                    IF from_protected
                    THEN [b EXCEPT !.protected_shares = @ - s, !.version = @ + 1]
                    ELSE [b EXCEPT !.available_shares = @ - s, !.version = @ + 1]]

\* C20: withdraw_available (on a ledger that is not paused), debit_available
\* and debit_protected fail with "Invalid amount" for shares < 1, fail with
\* "Insufficient available" / "Insufficient protected" when the named pool
\* holds fewer than shares, whatever the other pool holds, and otherwise
\* lower the named pool by exactly shares and leave the other pool as it
\* was; a failed step changes no balance.
C20_DebitsOnlyNamedPool ==
    /\ [](\A u \in Users, s \in ShareCounts :
            /\ DebitOutcome(debit_available(Ledger, u, s), u, s, FALSE)
            /\ DebitOutcome(debit_protected(Ledger, u, s), u, s, TRUE)
            /\ ~paused => DebitOutcome(withdraw_available(Ledger, u, s), u, s, FALSE)
            /\ paused => withdraw_available(Ledger, u, s).out # "Ok")
    /\ [][res'.op \in {"withdraw_available", "debit_available", "debit_protected"} =>
            /\ res'.out # "Ok" => (balances' = balances /\ stats' = stats)
            /\ res'.out = "Ok" =>
                \E u \in Users, s \in 1..MaxShares :
                    /\ \A v \in Users \ {u} : balances'[v] = balances[v]
                    /\ IF res'.op = "debit_protected"
                       THEN /\ balances'[u].protected_shares
                                 = balances[u].protected_shares - s
                            /\ balances'[u].available_shares = balances[u].available_shares
                       ELSE /\ balances'[u].available_shares
                                 = balances[u].available_shares - s
                            /\ balances'[u].protected_shares
                                 = balances[u].protected_shares]_vars

\* A debit of the protected pool was just refused although the available
\* pool held enough to cover the shortfall.
C20_Witness ==
    /\ Called("debit_protected", "Insufficient protected")
    /\ \E u \in Users :
        /\ balances[u].protected_shares = 1
        /\ balances[u].available_shares >= 1

\* The entry points that change storage.
MutatingOps ==
    {"deposit", "withdraw_available", "lock_shares", "unlock_shares", "debit_available",
     "debit_protected", "create_plan", "collect_installment"}

C22_PlanIdsUnique ==
    /\ [](/\ PlanIds = {PlanId(c) : c \in 0..(plan_counter - 1)}
          /\ Cardinality(PlanIds) = plan_counter
          /\ \A id \in PlanIds : plans[id].plan_id = id
          /\ \A u \in Users : \A i, j \in 1..Len(user_plans[u]) :
                i # j => user_plans[u][i] # user_plans[u][j])
    /\ [][/\ plan_counter' >= plan_counter
          /\ IF res'.op = "create_plan" /\ res'.out = "Ok"
             THEN /\ plan_counter' = plan_counter + 1
                  /\ res'.plan \notin DOMAIN plans
                  /\ DOMAIN plans' = DOMAIN plans \cup {res'.plan}
                  /\ \A id \in DOMAIN plans : plans'[id] = plans[id]
             ELSE /\ plan_counter' = plan_counter
                  /\ DOMAIN plans' = DOMAIN plans]_vars

\* A second plan was just created next to the first, under another id.
C22_Witness ==
    /\ Called("create_plan", "Ok")
    /\ plan_counter = 2
    /\ PlanIds = {0, 1}
    /\ res.plan = 1
    /\ user_plans["alice"] = <<0, 1>>

\* Requests of every shape: amounts from -1 up, counts 0, 1, 2 and 13, and up
\* to two due dates from 0 to the latest date.
ShapedAmounts == (-1)..MaxAmount

ShapedCounts == {0, 1, 2, MAX_INSTALLMENTS + 1}

ShapedDates ==
    {<<>>} \cup {<<d>> : d \in 0..(MaxTime + 1)}
           \cup {<<d, e>> : d, e \in 0..(MaxTime + 1)}

\* C23: create_plan fails with InvalidAmount when total_amount <= 0;
\* otherwise with InvalidInstallments when installments_count is 0 or above
\* 12; otherwise with DatesMismatch when the number of due dates is not
\* installments_count; otherwise with InvalidDueDate when a due date is at
\* or before the current time; and with none of the four otherwise.  A
\* call that fails so locks no shares, uses no plan id and stores no plan.
C23_CreatePlanValidation ==
    /\ [](\A u \in Users, m \in Merchants, amount \in ShapedAmounts,
             n \in ShapedCounts, dates \in ShapedDates :
            LET r == create_plan(u, m, amount, n, dates)
                bad_count == n = 0 \/ n > 12
                mismatch == Len(dates) # n
                past == \E i \in 1..Len(dates) : dates[i] <= now
                expected == IF amount <= 0 THEN "InvalidAmount"
                            ELSE IF bad_count THEN "InvalidInstallments"
                            ELSE IF mismatch THEN "DatesMismatch"
                            ELSE IF past THEN "InvalidDueDate"
                            ELSE "Ok"
                rejections == {"InvalidAmount", "InvalidInstallments", "DatesMismatch",
                               "InvalidDueDate"}
            IN /\ expected # "Ok" => r.out = expected
               /\ expected = "Ok" => r.out \notin rejections
               /\ r.out \in rejections =>
                    /\ r.L = Ledger
                    /\ r.plans = plans
                    /\ r.plan_counter = plan_counter
                    /\ r.user_plans = user_plans)
    /\ [][(res'.op = "create_plan"
           /\ res'.out \in {"InvalidAmount", "InvalidInstallments", "DatesMismatch",
                            "InvalidDueDate"})
            => UNCHANGED <<balances, stats, plans, plan_counter, user_plans>>]_vars

\* A request of a user with funds was just rejected for a due date equal to
\* the current time (the earliest date a caller passes is 1).
C23_Witness ==
    /\ Called("create_plan", "InvalidDueDate")
    /\ now = 1
    /\ \E u \in Users : AvailableValue(u) > 0

\* C24: a successful create_plan moves exactly shares_for_amount(total_amount)
\* shares of the user from the available to the protected pool, and stores a
\* plan that is Active, has total_shares and protected_shares both equal to
\* that count, and installments_count installments, all Pending with
\* paid_at and payment_source unset; the plan's id becomes the last entry
\* of the user's plan index.
C24_CreatePlanLocksCollateral ==
    [][(res'.op = "create_plan" /\ res'.out = "Ok") =>
        LET p == plans'[res'.plan]
            u == p.user
            sharesNeeded == shares_for_amount(p.total_amount)
        IN /\ balances'[u].available_shares = balances[u].available_shares - sharesNeeded
           /\ balances'[u].protected_shares = balances[u].protected_shares + sharesNeeded
           /\ \A v \in Users \ {u} : balances'[v] = balances[v]
           /\ p.status = "Active"
           /\ p.total_shares = sharesNeeded
           /\ p.protected_shares = sharesNeeded
           /\ Len(p.installments) = p.installments_count
           /\ \A i \in 1..p.installments_count :
                /\ p.installments[i].status = "Pending"
                /\ p.installments[i].paid_at = NONE
                /\ p.installments[i].payment_source = NONE
                /\ p.installments[i].number = i
           /\ user_plans' = [user_plans EXCEPT ![u] = Append(@, res'.plan)]]_vars

\* A plan of two installments was just created at a price where the shares
\* locked are fewer than the amount.
C24_Witness ==
    /\ Called("create_plan", "Ok")
    /\ plans[res.plan].installments_count = 2
    /\ plans[res.plan].total_shares < plans[res.plan].total_amount
    /\ balances[plans[res.plan].user].protected_shares = plans[res.plan].total_shares

\* What the claim says a collection returns that fails one of the three
\* entry checks, and "" when it passes them all.
EntryCheck(id, num) ==
    IF num \notin 1..plans[id].installments_count THEN "InstallmentNotFound"
    ELSE IF plans[id].installments[num].status # "Pending" THEN "AlreadyPaid"
    ELSE IF now < plans[id].installments[num].due_date THEN "NotDueYet"
    ELSE ""

EntryErrors == {"InstallmentNotFound", "AlreadyPaid", "NotDueYet"}

\* C25: collect_installment fails with InstallmentNotFound for every
\* installment_number outside 1..installments_count, 0 included; otherwise
\* with AlreadyPaid when the installment is not Pending; otherwise with
\* NotDueYet exactly when the current time is before the due date (not when
\* it equals it); and a call that fails so changes no plan and no balance.
C25_CollectionEntryChecks ==
    /\ [](\A id \in PlanIds, num \in 0..(MaxCount + 1) :
          \A wraps \in IF num = 0 THEN BOOLEAN ELSE {FALSE} :
            LET r == collect_installment(id, num, wraps)
            IN /\ EntryCheck(id, num) # "" => r.out = EntryCheck(id, num)
               /\ EntryCheck(id, num) = "" => r.out \notin EntryErrors
               /\ r.out \in EntryErrors => (r.plan = plans[id] /\ r.L = Ledger))
    /\ [][(res'.op = "collect_installment" /\ res'.out \in EntryErrors)
            => UNCHANGED <<balances, stats, plans, plan_counter, user_plans>>]_vars

\* A plan record is Completed exactly when all its installments are Paid,
\* and is neither Active nor Completed when one of them is Failed.
StatusMatchesInstallments(p) ==
    /\ p.status = "Completed" <=>
            \A i \in 1..Len(p.installments) : p.installments[i].status = "Paid"
    /\ (\E i \in 1..Len(p.installments) : p.installments[i].status = "Failed")
            => p.status \notin {"Active", "Completed"}

\* C26: every stored plan, and every plan record a collection writes
\* (whatever the collection's outcome), is Completed exactly when all its
\* installments are Paid and is neither Active nor Completed when one is
\* Failed; a successful collection of the last installment still unpaid,
\* whichever number it has, leaves the plan Completed.
C26_CompletedIffAllPaid ==
    /\ [](/\ \A id \in PlanIds : StatusMatchesInstallments(plans[id])
          /\ \A id \in PlanIds, num \in 1..MaxCount :
                StatusMatchesInstallments(collect_installment(id, num, FALSE).plan))
    /\ [][(res'.op = "collect_installment" /\ res'.out = "Ok") =>
            /\ plans'[res'.plan].installments[res'.num].status = "Paid"
            /\ StepCompletes => plans'[res'.plan].status = "Completed"
            /\ ~StepCompletes => plans'[res'.plan].status = "Active"]_vars

\* A plan of two installments was just completed by the collection of its
\* first installment, the second having been collected before.
C26_Witness ==
    /\ Called("collect_installment", "Ok")
    /\ res.num = 1
    /\ plans[res.plan].installments_count = 2
    /\ plans[res.plan].status = "Completed"
    /\ plans[res.plan].installments[2].status = "Paid"

\* The installments of a plan that are Pending and due.
DueNow(p) ==
    {k \in 1..Len(p.installments) :
        p.installments[k].status = "Pending" /\ p.installments[k].due_date <= now}

\* C27: get_next_due fails with PlanNotFound for an id that is not stored;
\* for a stored plan it returns the installment of the lowest position
\* among those Pending with due_date at or before the current time, and
\* none when there is no such installment; a step of it changes no state.
C27_GetNextDue ==
    /\ [](\A id \in 0..1 :
            LET r == get_next_due(id)
            IN IF id \notin PlanIds THEN r.out = "PlanNotFound"
               ELSE /\ r.out = "Ok"
                    /\ DueNow(plans[id]) = {} <=> r.value = <<>>
                    /\ DueNow(plans[id]) # {} =>
                        /\ Len(r.value) = 1
                        /\ r.value[1].number \in DueNow(plans[id])
                        /\ \A k \in DueNow(plans[id]) : r.value[1].number <= k
                        /\ r.value[1] = plans[id].installments[r.value[1].number])
    /\ [][res'.op = "get_next_due" =>
            /\ UNCHANGED <<now, paused, config, vault, balances, stats, plans, plan_counter,
                           user_plans>>
            /\ res'.out = get_next_due(res'.arg).out
            /\ res'.value = get_next_due(res'.arg).value]_vars

\* The query just returned installment 2, due exactly now, passing over
\* installment 1, which is Pending and due later.
C27_Witness ==
    /\ Called("get_next_due", "Ok")
    /\ Len(res.value) = 1
    /\ res.value[1].number = 2
    /\ res.value[1].due_date = now
    /\ plans[res.arg].installments[1].status = "Pending"
    /\ plans[res.arg].installments[1].due_date > now

\* C28: in every reachable state total_available, total_protected and
\* total_deposited of the stats are the sums over all users of
\* available_shares, protected_shares and total_deposited, and unique_users
\* is the number of users who have made a successful deposit.
C28_StatsAreAggregates ==
    LET all == DOMAIN balances
    IN /\ stats.total_available = SumOver([u \in all |-> balances[u].available_shares], all)
       /\ stats.total_protected = SumOver([u \in all |-> balances[u].protected_shares], all)
       /\ stats.total_deposited = SumOver([u \in all |-> balances[u].total_deposited], all)
       /\ stats.unique_users = Cardinality({u \in all : balances[u].total_deposited > 0})

\* Both users have deposited, one of them more than once, and shares of both
\* pools are outstanding.
C28_Witness ==
    /\ stats.unique_users = 2
    /\ stats.total_protected > 0
    /\ stats.total_available > 0
    /\ \E u \in DOMAIN balances :
        /\ balances[u].total_deposited = MaxLedgerDeposited
        /\ balances[u].version = MaxStatsVersion
    /\ \A u \in DOMAIN balances : balances[u].total_deposited > 0

\* What a collection step took out of a pool of the plan's user, the
\* shares a completion moved from the protected to the available pool set
\* aside.
StepMoved ==
    LET u == StepPlan.user
    IN (balances'[u].available_shares + balances'[u].protected_shares)
         - (balances[u].available_shares + balances[u].protected_shares) + StepNeeded

StepTakenFromAvailable ==
    IF res'.src = SOURCE_AVAILABLE THEN StepNeeded ELSE 0

StepTakenFromProtected ==
    IF res'.src = SOURCE_PROTECTED THEN StepNeeded ELSE 0

\* C29: a collection that pays takes the shares needed from exactly one
\* pool: from the available pool whenever it holds them, from the
\* protected pool only when the available pool holds fewer than needed and
\* the protected pool holds them; the pools together lose exactly the
\* shares needed, never a part from each; and the collection ends with
\* InsufficientFunds only when both pools hold fewer than needed.
C29_OnePoolByPriority ==
    /\ [](\A id \in PlanIds, num \in 1..MaxCount :
            LET r == collect_installment(id, num, FALSE)
                b == balances[plans[id].user]
                needed == shares_for_amount(plans[id].installments[num].amount)
            IN /\ (r.out = "Ok" /\ r.src = SOURCE_PROTECTED) =>
                    (b.available_shares < needed /\ b.protected_shares >= needed)
               /\ (r.out = "Ok" /\ r.src = SOURCE_AVAILABLE) => b.available_shares >= needed
               /\ r.out = "InsufficientFunds" =>
                    (b.available_shares < needed /\ b.protected_shares < needed)
               /\ r.out = "Ok" => r.src \in {SOURCE_AVAILABLE, SOURCE_PROTECTED})
    /\ [][(res'.op = "collect_installment" /\ res'.out = "Ok") =>
            LET u == StepPlan.user
                unlocked == IF StepCompletes /\ plans'[res'.plan].protected_shares = 0
                            THEN balances[u].protected_shares - StepTakenFromProtected
                                    - balances'[u].protected_shares
                            ELSE 0
            IN /\ StepMoved = 0
               /\ unlocked >= 0
               /\ balances'[u].available_shares
                    = balances[u].available_shares - StepTakenFromAvailable + unlocked
               /\ balances'[u].protected_shares
                    = balances[u].protected_shares - StepTakenFromProtected - unlocked
               /\ res'.src = SOURCE_PROTECTED => balances[u].available_shares < StepNeeded
               /\ res'.src = SOURCE_AVAILABLE => balances[u].available_shares >= StepNeeded]_vars

\* An installment was just paid from the protected pool while the available
\* pool held shares, fewer than needed, and still holds them all.
C29_Witness ==
    /\ Called("collect_installment", "Ok")
    /\ res.src = SOURCE_PROTECTED
    /\ plans[res.plan].status = "Active"
    /\ balances[plans[res.plan].user].available_shares > 0

\* The parts of an installment and of a plan that are set at creation.
InstallmentTerms(inst) == <<inst.number, inst.amount, inst.due_date>>

PlanTerms(p) ==
    <<p.plan_id, p.user, p.merchant, p.total_amount, p.total_shares, p.installments_count,
      p.created_at, [i \in 1..Len(p.installments) |-> InstallmentTerms(p.installments[i])]>>

\* C30: no step raises the protected_shares of a stored plan, and no step
\* changes its total_amount, total_shares, installments_count, user,
\* merchant, created_at, or the number, amount or due_date of any of its
\* installments.
C30_PlanTermsFixed ==
    [][\A id \in DOMAIN plans :
          /\ id \in DOMAIN plans'
          /\ plans'[id].protected_shares <= plans[id].protected_shares
          /\ PlanTerms(plans'[id]) = PlanTerms(plans[id])]_vars

\* A collection from the available pool has just lowered the protected
\* shares of a plan that stays Active with some collateral left.
C30_Witness ==
    /\ Called("collect_installment", "Ok")
    /\ res.src = SOURCE_AVAILABLE
    /\ plans[res.plan].status = "Active"
    /\ plans[res.plan].protected_shares > 0
    /\ plans[res.plan].protected_shares < plans[res.plan].total_shares

\* The ledger's entry points that write a balance.
BalanceOps ==
    {"deposit", "lock_shares", "unlock_shares", "withdraw_available", "debit_available",
     "debit_protected"}

\* C31: no step lowers a user's balance version; every step that changes a
\* user's balance raises its version by exactly 1; a successful deposit,
\* lock_shares, unlock_shares, withdraw_available, debit_available or
\* debit_protected raises the version of exactly one user by exactly 1; and
\* a balance has version 0 exactly when it is the default balance of a
\* user never written.
C31_VersionCountsMutations ==
    /\ [](\A u \in DOMAIN balances :
            balances[u].version = 0 <=> balances[u] = DefaultBalance)
    /\ [][/\ \A u \in DOMAIN balances :
                /\ balances'[u].version >= balances[u].version
                /\ balances'[u] # balances[u] =>
                        balances'[u].version = balances[u].version + 1
          /\ (res'.op \in BalanceOps /\ res'.out = "Ok") =>
                \E u \in DOMAIN balances :
                    /\ balances'[u].version = balances[u].version + 1
                    /\ \A v \in DOMAIN balances \ {u} : balances'[v] = balances[v]
          /\ (res'.op \in BalanceOps /\ res'.out # "Ok") => balances' = balances]_vars

\* A user's second mutation, a withdrawal, has just succeeded while the
\* other user's balance is still unwritten.
C31_Witness ==
    /\ Called("withdraw_available", "Ok")
    /\ \E u, v \in DOMAIN balances :
        /\ balances[u].version = 2
        /\ balances[v].version = 0

\* The protected shares the plans of user u hold between them.
PlanProtected(u) ==
    SumOver([id \in PlanIds |-> plans[id].protected_shares],
            {id \in PlanIds : plans[id].user = u})

\* C32: in every reachable state, with the plan engine the only caller of
\* lock, unlock and the debits, every user's protected_shares in the ledger
\* is the sum of protected_shares over that user's plans.
C32_LedgerMatchesPlans ==
    \A u \in Users : balances[u].protected_shares = PlanProtected(u)

\* C33: when the only plan a user has is Completed, the user's
\* protected_shares in the ledger is 0: every share create_plan locked has
\* been debited from the protected pool or unlocked.
C33_CollateralReturned ==
    \A u \in Users :
        (/\ \E id \in PlanIds : plans[id].user = u
         /\ \A id \in PlanIds : plans[id].user = u => plans[id].status = "Completed")
            => balances[u].protected_shares = 0

\* What the Active plans of user u have borrowed between them.
ActiveBorrowed(u) ==
    SumOver([id \in PlanIds |-> plans[id].total_amount],
            {id \in PlanIds : plans[id].user = u /\ plans[id].status = "Active"})

\* C34: while the reserve's price does not change, for every user the sum
\* of total_amount over the user's Active plans is at most
\* floor(totalValue * 8000 / 10000) of the user's total value in the ledger.
C34_AggregateLtv ==
    \A u \in Users : ActiveBorrowed(u) <= LtvCeiling(u)

\* C35: every installment of every stored plan has amount >= 1, so that
\* shares_for_amount is defined for it and its collection never fails on
\* the amount, also for a plan whose total_amount is below its
\* installments_count.
C35_InstallmentsCollectable ==
    \A id \in PlanIds : \A i \in 1..Len(plans[id].installments) :
        /\ plans[id].installments[i].amount >= 1
        /\ ~shares_for_amount_panics(plans[id].installments[i].amount)
        /\ collect_installment(id, i, FALSE).out # "Invalid amount"

\* C36: wherever create_plan's validation, LTV and availability checks pass
\* on an unpaused ledger, the user's available shares cover
\* shares_for_amount(total_amount), and no create_plan ever ends with the
\* lock's "Insufficient available".
ChecksPass(u, amount, rq) ==
    /\ ~paused
    /\ BasicValidation(amount, rq[1], rq[2]) = "Ok"
    /\ CollateralValidation(amount, get_values(Ledger, u)[1], get_values(Ledger, u)[3]) = "Ok"

C36_LockNeverShort ==
    /\ [](\A u \in Users, amount \in Amounts, rq \in Requests :
            ChecksPass(u, amount, rq) =>
                /\ ~shares_for_amount_panics(amount)
                /\ balances[u].available_shares >= shares_for_amount(amount)
                /\ \A m \in Merchants :
                      create_plan(u, m, amount, rq[1], rq[2]).out \in {"Ok", "InvalidShares"})
    /\ [][~Called("create_plan", "Insufficient available")']_vars

\* A plan created at a price other than 1:1 whose lock took every
\* available share.
C36_Witness ==
    /\ Called("create_plan", "Ok")
    /\ total_shares # total_managed
    /\ \E u \in Users : balances[u].available_shares = 0 /\ balances[u].protected_shares > 0

\* C37: every successful collect_installment has the reserve pay the
\* merchant recorded in the plan, whatever merchant_address the caller
\* passes.
C37_PaidToPlanMerchant ==
    Called("collect_installment", "Ok") => res.value = plans[res.plan].merchant

\* C38: a collection on a plan that is no longer Active -- Completed, or
\* defaulted by a collection that ended with InsufficientFunds -- debits no
\* share and marks no installment Paid.
NotActive(id) == plans[id].status # "Active" \/ id \in res.defaulted

C38_NoCollectionOnceInactive ==
    [][\A id \in PlanIds :
          (NotActive(id) /\ res'.op = "collect_installment" /\ res'.plan = id)
              => balances' = balances /\ plans' = plans]_vars

\* C39: the collection of a plan's last Pending installment never fails in
\* its completion step: the unlock of the plan's residual protected shares
\* finds them in the ledger, also when other plans of the user were
\* collected from the protected pool.
LastPending(id, i) ==
    /\ plans[id].installments[i].status = "Pending"
    /\ \A j \in 1..Len(plans[id].installments) :
          j # i => plans[id].installments[j].status = "Paid"

C39_CompletionNeverFails ==
    \A id \in PlanIds : \A i \in 1..Len(plans[id].installments) :
        LastPending(id, i) =>
            collect_installment(id, i, FALSE).out # "Insufficient protected"

\* C40: in every state each user holds exactly the shares minted by the
\* user's successful deposits less those burned by the user's successful
\* withdrawals and debits (less those of the withdrawal in flight); a
\* withdrawal stores the debited balance before it calls the reserve, so a
\* call made from inside the reserve sees it, and it stores no balance
\* after the reserve returns; no pool is ever overdrawn.
Held(u) == balances[u].available_shares + balances[u].protected_shares

InFlight(u) ==
    IF frame.active /\ frame.kind = "withdraw" /\ frame.user = u THEN frame.shares ELSE 0

WithdrawInFlight == frame.active /\ frame.kind = "withdraw"

C40_SharesConserved ==
    /\ [](\A u \in StatsUsers :
            /\ Held(u) = res.minted[u] - res.burned[u] - InFlight(u)
            /\ balances[u].available_shares >= 0
            /\ balances[u].protected_shares >= 0)
    /\ [][/\ (~frame.active /\ WithdrawInFlight')
               => /\ balances'[frame'.user] = frame'.bal
                  /\ balances'[frame'.user].available_shares
                       + balances'[frame'.user].protected_shares
                     = Held(frame'.user) - frame'.shares
          /\ (WithdrawInFlight /\ ~frame'.active /\ res'.out = "Ok")
               => balances' = balances]_vars

\* A withdrawal has returned after a call made from inside the reserve
\* debited the same user again.
C40_Witness ==
    /\ ~frame.active
    /\ res.op \in BurnOps
    /\ res.out = "Ok"
    /\ res.reentered
    /\ \E u \in StatsUsers : res.burned[u] = 2 /\ Held(u) = 1 /\ balances[u].version = 3

====
